---- MODULE Spec2Model ----
(***************************************************************************)
(* OpenVPN settings of gluetun (package settings): the resolution algebra  *)
(* copy / mergeWith / overrideWith / setDefaults and the validator.         *)
(*                                                                         *)
(* Go strings are sequences of one-character strings, so that the regular  *)
(* expressions and the base64 decoder can be computed on them.  A pointer  *)
(* field *T and a slice field []T hold an address (Nil = 0) into the heap  *)
(* arena of that field; the pointed-to value lives in the heap, so that    *)
(* two structs can share a cell and a write through one pointer is seen    *)
(* through the other.                                                      *)
(***************************************************************************)
EXTENDS Integers, Sequences, FiniteSets, TLC

VARIABLES
    h,            \* heap: for every pointer/slice field, the cells allocated for it
    o,            \* the receiver OpenVPN struct
    other,        \* the other operand of mergeWith / overrideWith
    copied,       \* the struct returned by the last copy()
    vpnProvider,  \* the provider name handed to setDefaults / validate
    op,           \* the last method that ran
    pre,          \* what o and copied held (dereferenced) before that method
    err,          \* the result of the last validate
    nDefaults,    \* how often setDefaults ran on o (saturates at "more than once")
    lateCombine,  \* a mergeWith / overrideWith ran on o after setDefaults
    text,         \* what the last String() of o and of other returned
    settings,     \* the WireGuard Settings
    lineSettings, \* the ToLinesSettings handed to ToLines
    checkErr,     \* the result of the last Check
    lines,        \* the result of the last ToLines
    environ,      \* the environment variables of the process
    envBefore,    \* the environment variables when readWireguard was called
    wireguard,    \* the fragment readWireguard returned
    readErr       \* the error readWireguard returned

vars == <<h, o, other, copied, vpnProvider, op, pre, err, nDefaults, lateCombine, text,
          settings, lineSettings, checkErr, lines, environ, envBefore, wireguard, readErr>>

\* the variables of the OpenVPN value besides op, of the WireGuard settings
\* and of the environment source
openvpnVars == <<h, o, other, copied, vpnProvider, pre, err, nDefaults, lateCombine, text>>

wireguardVars == <<settings, lineSettings, checkErr, lines>>

envVars == <<environ, envBefore, wireguard, readErr>>

\* the variables the algebra and the validator leave alone
elsewhere == <<text, wireguardVars, envVars>>

\* nothing has been rendered
NoText == [panic |-> FALSE, lines |-> << >>]

\* the state of those variables while only the algebra and the validator run
Elsewhere ==
    /\ text = [o |-> NoText, other |-> NoText]
    /\ settings = << >>
    /\ lineSettings = << >>
    /\ checkErr = << >>
    /\ lines = << >>
    /\ environ = << >>
    /\ envBefore = << >>
    /\ wireguard = << >>
    /\ readErr = << >>

(***************************************************************************)
(* Bounds of the model.                                                    *)
(***************************************************************************)
\* number of neighbouring fields of the struct that a source fragment sets
FocusWidth == 2

\* number of fields of a resolved value that differ from the valid one
MaxPerturbed == 2

(***************************************************************************)
(* The OpenVPN struct.                                                     *)
(***************************************************************************)
FieldOrder ==
    << "Version", "User", "Password", "ConfFile", "Ciphers", "Auth", "Cert",
       "Key", "EncryptedKey", "KeyPassphrase", "PIAEncPreset", "MSSFix",
       "Interface", "ProcessUser", "Verbosity", "Flags" >>

Fields == {FieldOrder[i] : i \in 1..Len(FieldOrder)}

\* fields of Go type string: the empty string is their absent state
StringFields == {"Version", "Interface", "ProcessUser"}

\* fields of Go type []string
SliceFields == {"Ciphers", "Flags"}

\* fields of Go type *uint16 and *int
IntFields == {"MSSFix", "Verbosity"}

\* fields of Go type *string, *uint16, *int
PointerFields == Fields \ (StringFields \cup SliceFields)

\* fields whose value lives in the heap
RefFields == PointerFields \cup SliceFields

Nil == 0

\* Go string literals used by the code
EmptyString == << >>
Openvpn25 == <<"2", ".", "5">>
Openvpn26 == <<"2", ".", "6">>
PresetStrong == <<"s", "t", "r", "o", "n", "g">>
Tun0 == <<"t", "u", "n", "0">>
Root == <<"r", "o", "o", "t">>
PasswordMullvad == <<"m">>

\* provider names (constants/providers)
Airvpn == "airvpn"
Custom == "custom"
Cyberghost == "cyberghost"
Ivpn == "ivpn"
Mullvad == "mullvad"
PrivateInternetAccess == "private internet access"
VPNSecure == "vpnsecure"
VPNUnlimited == "vpn unlimited"
Wevpn == "wevpn"

Providers ==
    {Airvpn, Custom, Cyberghost, Ivpn, Mullvad, PrivateInternetAccess,
     VPNSecure, VPNUnlimited, Wevpn}

\* the zero value of the struct: every field absent
ZeroOpenVPN == [f \in Fields |-> IF f \in StringFields THEN EmptyString ELSE Nil]

EmptyHeap == [f \in RefFields |-> << >>]

(***************************************************************************)
(* Reading the struct through its pointers.                                *)
(***************************************************************************)
ZeroValue(f) == IF f \in IntFields THEN 0 ELSE << >>

Absent(f) == [set |-> FALSE, val |-> ZeroValue(f)]

Present(f, v) == [set |-> TRUE, val |-> v]

\* *p for the pointer p of field f (only taken of a non-nil pointer)
Deref(hp, s, f) == hp[f][s[f]]

\* the struct as a reader sees it: strings by value, pointers and slices
\* as absent or as the value they point to
View(hp, s) ==
    [f \in Fields |->
        IF f \in StringFields THEN s[f]
        ELSE IF s[f] = Nil THEN Absent(f)
        ELSE Present(f, Deref(hp, s, f))]

IsSet(v, f) == IF f \in StringFields THEN v[f] # EmptyString ELSE v[f].set

(***************************************************************************)
(* gosettings helpers, as called by the methods below.  Each returns the   *)
(* resulting field value p and the arena m of the field after the call.    *)
(***************************************************************************)
Scalar(v) == [p |-> v, m |-> << >>]

\* new(T) holding v: a fresh cell at the end of the arena
New(m, v) == [p |-> Len(m) + 1, m |-> Append(m, v)]

\* mutant of CopyPointer: the pointer is copied, not the value
CopyPointerShared(m, original) == [p |-> original, m |-> m]

CopyPointer(m, original) ==
    IF original = Nil THEN [p |-> Nil, m |-> m] ELSE New(m, m[original])

CopySlice(m, original) ==
    IF original = Nil THEN [p |-> Nil, m |-> m] ELSE New(m, m[original])

MergeWithString(existing, another) ==
    IF existing # EmptyString THEN existing ELSE another

\* mutants of MergeWithPointer: one that lets the other operand win, one
\* that never fills
MergeWithPointerOverwrite(m, existing, another) ==
    IF another # Nil THEN New(m, m[another]) ELSE [p |-> existing, m |-> m]

MergeWithPointerNoFill(m, existing, another) == [p |-> existing, m |-> m]

MergeWithPointer(m, existing, another) ==
    IF existing # Nil THEN [p |-> existing, m |-> m]
    ELSE IF another = Nil THEN [p |-> Nil, m |-> m]
    ELSE New(m, m[another])

MergeWithSlice(m, existing, another) ==
    IF existing # Nil THEN [p |-> existing, m |-> m]
    ELSE IF another = Nil THEN [p |-> Nil, m |-> m]
    ELSE New(m, m[another])

OverrideWithString(existing, another) ==
    IF another = EmptyString THEN existing ELSE another

\* mutant of OverrideWithPointer: only an unset receiver field is replaced
OverrideWithPointerIfUnset(m, existing, another) ==
    IF existing # Nil \/ another = Nil THEN [p |-> existing, m |-> m]
    ELSE New(m, m[another])

OverrideWithPointer(m, existing, another) ==
    IF another = Nil THEN [p |-> existing, m |-> m] ELSE New(m, m[another])

OverrideWithSlice(m, existing, another) ==
    IF another = Nil THEN [p |-> existing, m |-> m] ELSE New(m, m[another])

DefaultString(existing, defaultValue) ==
    IF existing # EmptyString THEN existing ELSE defaultValue

\* mutant of DefaultPointer: a nil pointer is left nil
DefaultPointerKeepsNil(m, existing, defaultValue) == [p |-> existing, m |-> m]

\* mutant of DefaultPointer: the nil check is forgotten
DefaultPointerAlways(m, existing, defaultValue) == New(m, defaultValue)

DefaultPointer(m, existing, defaultValue) ==
    IF existing # Nil THEN [p |-> existing, m |-> m] ELSE New(m, defaultValue)

\* the struct and the heap made of one result per field
Collect(hp, r) ==
    [s |-> [f \in Fields |-> r[f].p],
     h |-> [f \in RefFields |-> r[f].m]]

(***************************************************************************)
(* The resolution algebra.                                                 *)
(***************************************************************************)
copy(hp, s) ==
    Collect(hp,
      [ Version       |-> Scalar(s.Version),
        User          |-> CopyPointer(hp.User, s.User),
        Password      |-> CopyPointer(hp.Password, s.Password),
        ConfFile      |-> CopyPointer(hp.ConfFile, s.ConfFile),
        Ciphers       |-> CopySlice(hp.Ciphers, s.Ciphers),
        Auth          |-> CopyPointer(hp.Auth, s.Auth),
        Cert          |-> CopyPointer(hp.Cert, s.Cert),
        Key           |-> CopyPointer(hp.Key, s.Key),
        EncryptedKey  |-> CopyPointer(hp.EncryptedKey, s.EncryptedKey),
        KeyPassphrase |-> CopyPointer(hp.KeyPassphrase, s.KeyPassphrase),
        PIAEncPreset  |-> CopyPointer(hp.PIAEncPreset, s.PIAEncPreset),
        MSSFix        |-> CopyPointer(hp.MSSFix, s.MSSFix),
        Interface     |-> Scalar(s.Interface),
        ProcessUser   |-> Scalar(s.ProcessUser),
        Verbosity     |-> CopyPointer(hp.Verbosity, s.Verbosity),
        Flags         |-> CopySlice(hp.Flags, s.Flags) ])

mergeWith(hp, s, t) ==
    Collect(hp,
      [ Version       |-> Scalar(MergeWithString(s.Version, t.Version)),
        User          |-> MergeWithPointer(hp.User, s.User, t.User),
        Password      |-> MergeWithPointer(hp.Password, s.Password, t.Password),
        ConfFile      |-> MergeWithPointer(hp.ConfFile, s.ConfFile, t.ConfFile),
        Ciphers       |-> MergeWithSlice(hp.Ciphers, s.Ciphers, t.Ciphers),
        Auth          |-> MergeWithPointer(hp.Auth, s.Auth, t.Auth),
        Cert          |-> MergeWithPointer(hp.Cert, s.Cert, t.Cert),
        Key           |-> MergeWithPointer(hp.Key, s.Key, t.Key),
        EncryptedKey  |-> MergeWithPointer(hp.EncryptedKey, s.EncryptedKey, t.EncryptedKey),
        KeyPassphrase |-> MergeWithPointer(hp.KeyPassphrase, s.KeyPassphrase, t.KeyPassphrase),
        PIAEncPreset  |-> MergeWithPointer(hp.PIAEncPreset, s.PIAEncPreset, t.PIAEncPreset),
        MSSFix        |-> MergeWithPointer(hp.MSSFix, s.MSSFix, t.MSSFix),
        Interface     |-> Scalar(MergeWithString(s.Interface, t.Interface)),
        ProcessUser   |-> Scalar(MergeWithString(s.ProcessUser, t.ProcessUser)),
        Verbosity     |-> MergeWithPointer(hp.Verbosity, s.Verbosity, t.Verbosity),
        Flags         |-> MergeWithSlice(hp.Flags, s.Flags, t.Flags) ])

overrideWith(hp, s, t) ==
    Collect(hp,
      [ Version       |-> Scalar(OverrideWithString(s.Version, t.Version)),
        User          |-> OverrideWithPointer(hp.User, s.User, t.User),
        Password      |-> OverrideWithPointer(hp.Password, s.Password, t.Password),
        ConfFile      |-> OverrideWithPointer(hp.ConfFile, s.ConfFile, t.ConfFile),
        Ciphers       |-> OverrideWithSlice(hp.Ciphers, s.Ciphers, t.Ciphers),
        Auth          |-> OverrideWithPointer(hp.Auth, s.Auth, t.Auth),
        Cert          |-> OverrideWithPointer(hp.Cert, s.Cert, t.Cert),
        Key           |-> OverrideWithPointer(hp.Key, s.Key, t.Key),
        EncryptedKey  |-> OverrideWithPointer(hp.EncryptedKey, s.EncryptedKey, t.EncryptedKey),
        KeyPassphrase |-> OverrideWithPointer(hp.KeyPassphrase, s.KeyPassphrase, t.KeyPassphrase),
        PIAEncPreset  |-> OverrideWithPointer(hp.PIAEncPreset, s.PIAEncPreset, t.PIAEncPreset),
        MSSFix        |-> OverrideWithPointer(hp.MSSFix, s.MSSFix, t.MSSFix),
        Interface     |-> Scalar(OverrideWithString(s.Interface, t.Interface)),
        ProcessUser   |-> Scalar(OverrideWithString(s.ProcessUser, t.ProcessUser)),
        Verbosity     |-> OverrideWithPointer(hp.Verbosity, s.Verbosity, t.Verbosity),
        Flags         |-> OverrideWithSlice(hp.Flags, s.Flags, t.Flags) ])

\* mutant of defaultPassword: the Mullvad case is forgotten
defaultPasswordAlwaysEmpty(provider) == EmptyString

defaultPassword(provider) ==
    IF provider = Mullvad THEN PasswordMullvad ELSE EmptyString

defaultEncPreset(provider) ==
    IF provider = PrivateInternetAccess THEN PresetStrong ELSE EmptyString

\* mutant of setDefaults: the Version line reads the Interface field
setDefaultsWrongField(hp, s, provider) ==
    Collect(hp,
      [ Version       |-> Scalar(DefaultString(s.Interface, Openvpn25)),
        User          |-> DefaultPointer(hp.User, s.User, EmptyString),
        Password      |-> DefaultPointer(hp.Password, s.Password, defaultPassword(provider)),
        ConfFile      |-> DefaultPointer(hp.ConfFile, s.ConfFile, EmptyString),
        Ciphers       |-> [p |-> s.Ciphers, m |-> hp.Ciphers],
        Auth          |-> DefaultPointer(hp.Auth, s.Auth, EmptyString),
        Cert          |-> DefaultPointer(hp.Cert, s.Cert, EmptyString),
        Key           |-> DefaultPointer(hp.Key, s.Key, EmptyString),
        EncryptedKey  |-> DefaultPointer(hp.EncryptedKey, s.EncryptedKey, EmptyString),
        KeyPassphrase |-> DefaultPointer(hp.KeyPassphrase, s.KeyPassphrase, EmptyString),
        PIAEncPreset  |-> DefaultPointer(hp.PIAEncPreset, s.PIAEncPreset, defaultEncPreset(provider)),
        MSSFix        |-> DefaultPointer(hp.MSSFix, s.MSSFix, 0),
        Interface     |-> Scalar(DefaultString(s.Interface, Tun0)),
        ProcessUser   |-> Scalar(DefaultString(s.ProcessUser, Root)),
        Verbosity     |-> DefaultPointer(hp.Verbosity, s.Verbosity, 1),
        Flags         |-> [p |-> s.Flags, m |-> hp.Flags] ])

setDefaults(hp, s, provider) ==
    Collect(hp,
      [ Version       |-> Scalar(DefaultString(s.Version, Openvpn25)),
        User          |-> DefaultPointer(hp.User, s.User, EmptyString),
        Password      |-> DefaultPointer(hp.Password, s.Password, defaultPassword(provider)),
        ConfFile      |-> DefaultPointer(hp.ConfFile, s.ConfFile, EmptyString),
        Ciphers       |-> [p |-> s.Ciphers, m |-> hp.Ciphers],
        Auth          |-> DefaultPointer(hp.Auth, s.Auth, EmptyString),
        Cert          |-> DefaultPointer(hp.Cert, s.Cert, EmptyString),
        Key           |-> DefaultPointer(hp.Key, s.Key, EmptyString),
        EncryptedKey  |-> DefaultPointer(hp.EncryptedKey, s.EncryptedKey, EmptyString),
        KeyPassphrase |-> DefaultPointer(hp.KeyPassphrase, s.KeyPassphrase, EmptyString),
        PIAEncPreset  |-> DefaultPointer(hp.PIAEncPreset, s.PIAEncPreset, defaultEncPreset(provider)),
        MSSFix        |-> DefaultPointer(hp.MSSFix, s.MSSFix, 0),
        Interface     |-> Scalar(DefaultString(s.Interface, Tun0)),
        ProcessUser   |-> Scalar(DefaultString(s.ProcessUser, Root)),
        Verbosity     |-> DefaultPointer(hp.Verbosity, s.Verbosity, 1),
        Flags         |-> [p |-> s.Flags, m |-> hp.Flags] ])

\* WithDefaults has a value receiver: setDefaults runs on a shallow copy of
\* the struct (the pointers are shared) and that copy is returned
WithDefaults(hp, s, provider) == setDefaults(hp, s, provider)

(***************************************************************************)
(* The validator.                                                          *)
(***************************************************************************)
Lower ==
    {"a", "b", "c", "d", "e", "f", "g", "h", "i", "j", "k", "l", "m",
     "n", "o", "p", "q", "r", "s", "t", "u", "v", "w", "x", "y", "z"}

Upper ==
    {"A", "B", "C", "D", "E", "F", "G", "H", "I", "J", "K", "L", "M",
     "N", "O", "P", "Q", "R", "S", "T", "U", "V", "W", "X", "Y", "Z"}

Digit == {"0", "1", "2", "3", "4", "5", "6", "7", "8", "9"}

AlphaNum == Lower \cup Upper \cup Digit

\* ^(i|ivpn)\-[a-zA-Z0-9]{4}\-[a-zA-Z0-9]{4}\-[a-zA-Z0-9]{4}$
ivpnAccountID(str) ==
    \E k \in {1, 4} :
        /\ Len(str) = k + 15
        /\ SubSeq(str, 1, k) = SubSeq(<<"i", "v", "p", "n">>, 1, k)
        /\ \A j \in 1..15 :
              IF j \in {1, 6, 11} THEN str[k + j] = "-" ELSE str[k + j] \in AlphaNum

\* ^[a-zA-Z0-9_]+$
regexpInterfaceName(str) ==
    /\ Len(str) > 0
    /\ \A j \in 1..Len(str) : str[j] \in AlphaNum \cup {"_"}

Base64Alphabet == AlphaNum \cup {"+", "/"}

\* base64.StdEncoding.DecodeString(str) returns no error: padded quanta of
\* four characters, new lines ignored, padding only at the very end
DecodesAsBase64(str) ==
    LET t == SelectSeq(str, LAMBDA c : c \notin {"\n", "\r"})
        n == Len(t)
        pad == IF n = 0 \/ t[n] # "=" THEN 0 ELSE IF t[n - 1] # "=" THEN 1 ELSE 2
    IN  /\ n % 4 = 0
        /\ \A j \in 1..(n - pad) : t[j] \in Base64Alphabet

\* the files of the machine: the paths that exist, and those among them
\* that hold an OpenVPN configuration the extractor can read
FilesOnDisk == { <<"/", "o", "k">>, <<"/", "b", "a", "d">> }

FilesExtractable == { <<"/", "o", "k">> }

\* the nil error
NoError == [sentinel |-> "nil", wrap |-> ""]

Err(sentinel) == [sentinel |-> sentinel, wrap |-> ""]

\* fmt.Errorf("<context>: %w", err)
Wrap(context, e) == IF e = NoError THEN NoError ELSE [e EXCEPT !.wrap = context]

\* reading through a nil pointer
Panic == [sentinel |-> "panic", wrap |-> "nil pointer dereference"]

maxMSSFix == 10000

validVersions == {Openvpn25, Openvpn26}

isCustom(provider) == provider = Custom

\* mutant of isUserRequired: the AirVPN exemption is forgotten
isUserRequiredAirvpnToo(provider) ==
    ~isCustom(provider) /\ provider # VPNSecure

isUserRequired(provider) ==
    ~isCustom(provider) /\ provider # Airvpn /\ provider # VPNSecure

passwordRequired(provider, user) ==
    isUserRequired(provider) /\ (provider # Ivpn \/ ~ivpnAccountID(user))

validateOpenVPNConfigFilepath(custom, confFile) ==
    IF ~custom THEN NoError
    ELSE IF confFile = EmptyString THEN Err("ErrFilepathMissing")
    ELSE IF confFile \notin FilesOnDisk THEN Err("ErrFileDoesNotExist")
    ELSE IF confFile \notin FilesExtractable
         THEN Err("extracting information from custom configuration file")
    ELSE NoError

\* mutant of validateOpenVPNClientCertificate: VPN Unlimited is left out of
\* the providers that need a certificate
validateOpenVPNClientCertificateNoVPNUnlimited(provider, clientCert) ==
    IF provider \in {Airvpn, Cyberghost, VPNSecure} /\ clientCert = EmptyString
    THEN Err("ErrMissingValue")
    ELSE IF clientCert = EmptyString THEN NoError
    ELSE IF ~DecodesAsBase64(clientCert) THEN Err("base64.CorruptInputError")
    ELSE NoError

validateOpenVPNClientCertificate(provider, clientCert) ==
    IF provider \in {Airvpn, Cyberghost, VPNSecure, VPNUnlimited} /\ clientCert = EmptyString
    THEN Err("ErrMissingValue")
    ELSE IF clientCert = EmptyString THEN NoError
    ELSE IF ~DecodesAsBase64(clientCert) THEN Err("base64.CorruptInputError")
    ELSE NoError

validateOpenVPNClientKey(provider, clientKey) ==
    IF provider \in {Airvpn, Cyberghost, VPNUnlimited, Wevpn} /\ clientKey = EmptyString
    THEN Err("ErrMissingValue")
    ELSE IF clientKey = EmptyString THEN NoError
    ELSE IF ~DecodesAsBase64(clientKey) THEN Err("base64.CorruptInputError")
    ELSE NoError

validateOpenVPNEncryptedKey(provider, encryptedPrivateKey) ==
    IF provider = VPNSecure /\ encryptedPrivateKey = EmptyString
    THEN Err("ErrMissingValue")
    ELSE IF encryptedPrivateKey = EmptyString THEN NoError
    ELSE IF ~DecodesAsBase64(encryptedPrivateKey) THEN Err("base64.CorruptInputError")
    ELSE NoError

\* the checks of validate, one per early return; each is the outcome of its
\* statement when the statements before it let validate go on
checkVersion(hp, s, provider) ==
    IF s.Version \in validVersions THEN NoError
    ELSE Err("ErrOpenVPNVersionIsNotValid")

checkUser(hp, s, provider) ==
    IF ~isUserRequired(provider) THEN NoError
    ELSE IF s.User = Nil THEN Panic
    ELSE IF Deref(hp, s, "User") = EmptyString THEN Err("ErrOpenVPNUserIsEmpty")
    ELSE NoError

checkPassword(hp, s, provider) ==
    IF isUserRequired(provider) /\ provider = Ivpn /\ s.User = Nil THEN Panic
    ELSE IF ~passwordRequired(provider,
                IF s.User = Nil THEN EmptyString ELSE Deref(hp, s, "User"))
         THEN NoError
    ELSE IF s.Password = Nil THEN Panic
    ELSE IF Deref(hp, s, "Password") = EmptyString THEN Err("ErrOpenVPNPasswordIsEmpty")
    ELSE NoError

checkConfFile(hp, s, provider) ==
    IF s.ConfFile = Nil THEN Panic
    ELSE Wrap("custom configuration file",
              validateOpenVPNConfigFilepath(isCustom(provider), Deref(hp, s, "ConfFile")))

checkCert(hp, s, provider) ==
    IF s.Cert = Nil THEN Panic
    ELSE Wrap("client certificate",
              validateOpenVPNClientCertificate(provider, Deref(hp, s, "Cert")))

checkKey(hp, s, provider) ==
    IF s.Key = Nil THEN Panic
    ELSE Wrap("client key", validateOpenVPNClientKey(provider, Deref(hp, s, "Key")))

checkEncryptedKey(hp, s, provider) ==
    IF s.EncryptedKey = Nil THEN Panic
    ELSE Wrap("encrypted key",
              validateOpenVPNEncryptedKey(provider, Deref(hp, s, "EncryptedKey")))

\* mutant of checkKeyPassphrase: the passphrase is asked for only when the
\* encrypted key is itself required
checkKeyPassphraseOnlyVPNSecure(hp, s, provider) ==
    IF s.EncryptedKey = Nil THEN Panic
    ELSE IF Deref(hp, s, "EncryptedKey") = EmptyString \/ provider # VPNSecure THEN NoError
    ELSE IF s.KeyPassphrase = Nil THEN Panic
    ELSE IF Deref(hp, s, "KeyPassphrase") = EmptyString
         THEN Err("ErrOpenVPNKeyPassphraseIsEmpty")
    ELSE NoError

checkKeyPassphrase(hp, s, provider) ==
    IF s.EncryptedKey = Nil THEN Panic
    ELSE IF Deref(hp, s, "EncryptedKey") = EmptyString THEN NoError
    ELSE IF s.KeyPassphrase = Nil THEN Panic
    ELSE IF Deref(hp, s, "KeyPassphrase") = EmptyString
         THEN Err("ErrOpenVPNKeyPassphraseIsEmpty")
    ELSE NoError

checkMSSFix(hp, s, provider) ==
    IF s.MSSFix = Nil THEN Panic
    ELSE IF Deref(hp, s, "MSSFix") > maxMSSFix THEN Err("ErrOpenVPNMSSFixIsTooHigh")
    ELSE NoError

checkInterface(hp, s, provider) ==
    IF ~regexpInterfaceName(s.Interface) THEN Err("ErrOpenVPNInterfaceNotValid")
    ELSE NoError

checkVerbosity(hp, s, provider) ==
    IF s.Verbosity = Nil THEN Panic
    ELSE IF Deref(hp, s, "Verbosity") < 0 \/ Deref(hp, s, "Verbosity") > 6
         THEN Err("ErrOpenVPNVerbosityIsOutOfBounds")
    ELSE NoError

\* the outcome of the first statement that does not let validate go on
FirstError(outcomes) ==
    IF \A i \in 1..Len(outcomes) : outcomes[i] = NoError THEN NoError
    ELSE outcomes[CHOOSE i \in 1..Len(outcomes) :
                    /\ outcomes[i] # NoError
                    /\ \A j \in 1..(i - 1) : outcomes[j] = NoError]

\* mutant of validate: the interface name is checked before the MSS fix
validateInterfaceFirst(hp, s, provider) ==
    FirstError(<< checkVersion(hp, s, provider),
                  checkUser(hp, s, provider),
                  checkPassword(hp, s, provider),
                  checkConfFile(hp, s, provider),
                  checkCert(hp, s, provider),
                  checkKey(hp, s, provider),
                  checkEncryptedKey(hp, s, provider),
                  checkKeyPassphrase(hp, s, provider),
                  checkInterface(hp, s, provider),
                  checkMSSFix(hp, s, provider),
                  checkVerbosity(hp, s, provider) >>)

validate(hp, s, provider) ==
    FirstError(<< checkVersion(hp, s, provider),
                  checkUser(hp, s, provider),
                  checkPassword(hp, s, provider),
                  checkConfFile(hp, s, provider),
                  checkCert(hp, s, provider),
                  checkKey(hp, s, provider),
                  checkEncryptedKey(hp, s, provider),
                  checkKeyPassphrase(hp, s, provider),
                  checkMSSFix(hp, s, provider),
                  checkInterface(hp, s, provider),
                  checkVerbosity(hp, s, provider) >>)


(***************************************************************************)
(* The presenter.  A line of the tree is a label and the formatted value.  *)
(***************************************************************************)
DigitChars == <<"0", "1", "2", "3", "4", "5", "6", "7", "8", "9">>

\* fmt's %d: the decimal digits of n
RECURSIVE Itoa(_)
Itoa(n) ==
    IF n < 0 THEN <<"-">> \o Itoa(0 - n)
    ELSE IF n < 10 THEN <<DigitChars[n + 1]>>
    ELSE Itoa(n \div 10) \o Itoa(n % 10)

\* fmt's %s of a []string: [a b c]
RECURSIVE JoinWithSpaces(_)
JoinWithSpaces(list) ==
    IF list = << >> THEN << >>
    ELSE IF Len(list) = 1 THEN list[1]
    ELSE list[1] \o <<" ">> \o JoinWithSpaces(Tail(list))

FormatStrings(list) == <<"[">> \o JoinWithSpaces(list) \o <<"]">>

NotSetToken == <<"[", "n", "o", "t", " ", "s", "e", "t", "]">>

SetToken == <<"[", "s", "e", "t", "]">>

\* the shortest key gosettings.ObfuscateKey shows the two ends of
obfuscateMinLength == 24

\* the number of characters it shows at each end
obfuscateShown == 3

\* gosettings.ObfuscateKey: "[not set]" for the empty key, "[set]" for a
\* short one, and the two ends of a long one around three dots
ObfuscateKey(key) ==
    IF key = EmptyString THEN NotSetToken
    ELSE IF Len(key) < obfuscateMinLength THEN SetToken
    ELSE SubSeq(key, 1, obfuscateShown) \o <<".", ".", ".">>
            \o SubSeq(key, Len(key) - obfuscateShown + 1, Len(key))

\* node.Appendf(label + verb, value) when cond holds
Line(cond, label, value) ==
    IF cond THEN << [label |-> label, value |-> value] >> ELSE << >>

\* the pointers toLinesNode reads through
dereferenced(hp, s) ==
    {"User", "Password", "ConfFile", "Auth", "Cert", "Key", "EncryptedKey",
     "PIAEncPreset", "MSSFix", "Verbosity"}
      \cup IF s.EncryptedKey # Nil /\ Deref(hp, s, "EncryptedKey") # EmptyString
           THEN {"KeyPassphrase"} ELSE {}

\* the children of the node toLinesNode returns, or its panic on a nil pointer
toLinesNode(hp, s) ==
    IF \E f \in dereferenced(hp, s) : s[f] = Nil
    THEN [panic |-> TRUE, lines |-> << >>]
    ELSE [panic |-> FALSE,
          lines |->
               Line(TRUE, "OpenVPN version: ", s.Version)
            \o Line(TRUE, "User: ", ObfuscateKey(Deref(hp, s, "User")))
            \o Line(TRUE, "Password: ", ObfuscateKey(Deref(hp, s, "Password")))
            \o Line(Deref(hp, s, "ConfFile") # EmptyString,
                    "Custom configuration file: ", Deref(hp, s, "ConfFile"))
            \o Line(s.Ciphers # Nil /\ Len(Deref(hp, s, "Ciphers")) > 0,
                    "Ciphers: ", FormatStrings(Deref(hp, s, "Ciphers")))
            \o Line(Deref(hp, s, "Auth") # EmptyString, "Auth: ", Deref(hp, s, "Auth"))
            \o Line(Deref(hp, s, "Cert") # EmptyString,
                    "Client crt: ", ObfuscateKey(Deref(hp, s, "Cert")))
            \o Line(Deref(hp, s, "Key") # EmptyString,
                    "Client key: ", ObfuscateKey(Deref(hp, s, "Key")))
            \o Line(Deref(hp, s, "EncryptedKey") # EmptyString,
                    "Encrypted key: ",
                    ObfuscateKey(Deref(hp, s, "EncryptedKey"))
                      \o <<" ", "(", "k", "e", "y", " ", "p", "a", "s", "s", "h",
                           "r", "a", "p", "s", "e", " ">>
                      \o ObfuscateKey(Deref(hp, s, "KeyPassphrase")) \o <<")">>)
            \o Line(Deref(hp, s, "PIAEncPreset") # EmptyString,
                    "Private Internet Access encryption preset: ",
                    Deref(hp, s, "PIAEncPreset"))
            \o Line(Deref(hp, s, "MSSFix") > 0, "MSS Fix: ", Itoa(Deref(hp, s, "MSSFix")))
            \o Line(s.Interface # EmptyString, "Network interface: ", s.Interface)
            \o Line(TRUE, "Run OpenVPN as: ", s.ProcessUser)
            \o Line(TRUE, "Verbosity level: ", Itoa(Deref(hp, s, "Verbosity")))
            \o Line(s.Flags # Nil /\ Len(Deref(hp, s, "Flags")) > 0,
                    "Flags: ", FormatStrings(Deref(hp, s, "Flags")))]

\* the box-drawing prefixes, written with the code points of their
\* characters: U+251C U+2500 U+2500 space, and U+2514 U+2500 U+2500 space
BranchGlyph == "<251C><2500><2500> "

LeafGlyph == "<2514><2500><2500> "

\* gotree's Node.String: the root, then every child behind a branch prefix,
\* the last one behind the leaf prefix
TreeString(root, children) ==
    << [prefix |-> "", label |-> root, value |-> EmptyString] >>
      \o [i \in 1..Len(children) |->
            [prefix |-> IF i = Len(children) THEN LeafGlyph ELSE BranchGlyph,
             label  |-> children[i].label,
             value  |-> children[i].value]]

\* o.String()
String(hp, s) ==
    LET node == toLinesNode(hp, s)
    IN  IF node.panic THEN [panic |-> TRUE, lines |-> << >>]
        ELSE [panic |-> FALSE, lines |-> TreeString("OpenVPN settings:", node.lines)]

(***************************************************************************)
(* WireGuard settings (package wireguard): Check and ToLines.  A net.IP is *)
(* the empty tuple (nil), four bytes (an IPv4 address, in its 4-byte or    *)
(* its IPv4-mapped 16-byte form) or eight 16-bit groups (IPv6); a          *)
(* net.IPMask is nil or the leading ones and the bit length of a CIDR mask.*)
(***************************************************************************)
NilIP == << >>

IsIPv4(ip) == Len(ip) = 4

IsIPv6(ip) == Len(ip) = 8

\* a *net.IPNet: nil, or an IP and a mask, either of which may be nil
NilIPMask == [nil |-> TRUE, ones |-> 0, bits |-> 0]

NilIPNet == [nil |-> TRUE, ip |-> NilIP, mask |-> NilIPMask]

\* an IP and net.CIDRMask(ones, bits)
CIDR(ip, ones, bits) ==
    [nil |-> FALSE, ip |-> ip, mask |-> [nil |-> FALSE, ones |-> ones, bits |-> bits]]

\* a network whose mask has the length of its address
IPNet(ip, ones) == CIDR(ip, ones, IF IsIPv4(ip) THEN 32 ELSE 128)

IPNetNoMask(ip) == [nil |-> FALSE, ip |-> ip, mask |-> NilIPMask]

\* a *net.UDPAddr
NilUDPAddr == [nil |-> TRUE, ip |-> NilIP, port |-> 0]

UDPAddr(ip, port) == [nil |-> FALSE, ip |-> ip, port |-> port]

\* a *bool
NilBool == [set |-> FALSE, val |-> FALSE]

PtrBool(b) == [set |-> TRUE, val |-> b]

allIPv4 == IPNet(<<0, 0, 0, 0>>, 0)

allIPv6 == IPNet(<<0, 0, 0, 0, 0, 0, 0, 0>>, 0)

HexChars ==
    <<"0", "1", "2", "3", "4", "5", "6", "7", "8", "9", "a", "b", "c", "d", "e", "f">>

\* a 16-bit group in hexadecimal, without leading zeros
RECURSIVE Hex(_)
Hex(n) == IF n < 16 THEN <<HexChars[n + 1]>> ELSE Hex(n \div 16) \o <<HexChars[(n % 16) + 1]>>

\* the number of zero groups of ip from group i on
RECURSIVE ZeroRun(_, _)
ZeroRun(ip, i) == IF i > 8 \/ ip[i] # 0 THEN 0 ELSE 1 + ZeroRun(ip, i + 1)

\* the first longest run of two or more zero groups, as its first group and
\* the group after its last (0, 0 when there is none)
LongestZeroRun(ip) ==
    LET longest == CHOOSE n \in 0..8 :
                      /\ \E i \in 1..8 : ZeroRun(ip, i) = n
                      /\ \A i \in 1..8 : ZeroRun(ip, i) <= n
        e0 == CHOOSE i \in 1..8 :
                  /\ ZeroRun(ip, i) = longest
                  /\ \A j \in 1..(i - 1) : ZeroRun(ip, j) < longest
    IN  IF longest < 2 THEN [e0 |-> 0, e1 |-> 0] ELSE [e0 |-> e0, e1 |-> e0 + longest]

RECURSIVE FormatIPv6From(_, _, _)
FormatIPv6From(ip, i, run) ==
    IF i > 8 THEN << >>
    ELSE IF i = run.e0
         THEN <<":", ":">> \o IF run.e1 > 8 THEN << >>
                              ELSE Hex(ip[run.e1]) \o FormatIPv6From(ip, run.e1 + 1, run)
    ELSE (IF i > 1 THEN <<":">> ELSE << >>) \o Hex(ip[i]) \o FormatIPv6From(ip, i + 1, run)

NilText == <<"<", "n", "i", "l", ">">>

\* net.IP.String
IPString(ip) ==
    IF ip = NilIP THEN NilText
    ELSE IF IsIPv4(ip)
         THEN Itoa(ip[1]) \o <<".">> \o Itoa(ip[2]) \o <<".">> \o Itoa(ip[3]) \o <<".">> \o Itoa(ip[4])
    ELSE FormatIPv6From(ip, 1, LongestZeroRun(ip))

\* net.IPNet.String
IPNetString(n) ==
    IF n.nil \/ n.ip = NilIP \/ n.mask.nil THEN NilText
    ELSE IF IsIPv6(n.ip) /\ n.mask.bits = 32 THEN NilText
    ELSE IF IsIPv4(n.ip) /\ n.mask.bits = 128
         THEN IPString(n.ip) \o <<"/">>
                \o Itoa(IF n.mask.ones > 96 THEN n.mask.ones - 96 ELSE 0)
    ELSE IPString(n.ip) \o <<"/">> \o Itoa(n.mask.ones)

\* net.UDPAddr.String
UDPAddrString(a) ==
    IF a.nil THEN NilText
    ELSE IF a.ip = NilIP THEN <<":">> \o Itoa(a.port)
    ELSE IF IsIPv6(a.ip) THEN <<"[">> \o IPString(a.ip) \o <<"]", ":">> \o Itoa(a.port)
    ELSE IPString(a.ip) \o <<":">> \o Itoa(a.port)

\* the zero Settings{}
ZeroSettings ==
    [ InterfaceName  |-> EmptyString,
      PrivateKey     |-> EmptyString,
      PublicKey      |-> EmptyString,
      PreSharedKey   |-> EmptyString,
      Endpoint       |-> NilUDPAddr,
      Addresses      |-> << >>,
      AllowedIPs     |-> << >>,
      FirewallMark   |-> 0,
      RulePriority   |-> 0,
      IPv6           |-> NilBool,
      Implementation |-> EmptyString ]

\* wgtypes.ParseKey returns no error: base64 of exactly 32 bytes
ParseKey(str) ==
    /\ DecodesAsBase64(str)
    /\ Len(str) = 44
    /\ str[44] = "=" /\ str[43] # "="

Implementations == { <<"a", "u", "t", "o">>, <<"k", "e", "r", "n", "e", "l", "s", "p", "a", "c", "e">>, <<"u", "s", "e", "r", "s", "p", "a", "c", "e">> }

\* an error of Check: its sentinel and what the message adds to the
\* sentinel's text
CheckError(sentinel, detail) == [sentinel |-> sentinel, detail |-> detail]

NoCheckError == CheckError("nil", EmptyString)

\* "for <what> i of n"
EntryOf(what, i, n) == what \o Itoa(i) \o <<" ", "o", "f", " ">> \o Itoa(n)

ForAllowedIP == <<"f", "o", "r", " ", "a", "l", "l", "o", "w", "e", "d", " ", "I", "P", " ">>

ForAddress == <<"f", "o", "r", " ", "a", "d", "d", "r", "e", "s", "s", " ">>

\* the outcome of the first statement that does not let Check go on
FirstCheckError(outcomes) ==
    IF \A i \in 1..Len(outcomes) : outcomes[i] = NoCheckError THEN NoCheckError
    ELSE outcomes[CHOOSE i \in 1..Len(outcomes) :
                    /\ outcomes[i] # NoCheckError
                    /\ \A j \in 1..(i - 1) : outcomes[j] = NoCheckError]

\* the checks of Check in their order; each is the outcome of its statement
\* when the statements before it let Check go on
checkInterfaceName(ws) ==
    IF ~regexpInterfaceName(ws.InterfaceName)
    THEN CheckError("ErrInterfaceNameInvalid", ws.InterfaceName)
    ELSE NoCheckError

checkPrivateKey(ws) ==
    IF ws.PrivateKey = EmptyString THEN CheckError("ErrPrivateKeyMissing", EmptyString)
    ELSE IF ~ParseKey(ws.PrivateKey) THEN CheckError("ErrPrivateKeyInvalid", EmptyString)
    ELSE NoCheckError

checkPublicKey(ws) ==
    IF ws.PublicKey = EmptyString THEN CheckError("ErrPublicKeyMissing", EmptyString)
    ELSE IF ~ParseKey(ws.PublicKey) THEN CheckError("ErrPublicKeyInvalid", ws.PublicKey)
    ELSE NoCheckError

checkPreSharedKey(ws) ==
    IF ws.PreSharedKey # EmptyString /\ ~ParseKey(ws.PreSharedKey)
    THEN CheckError("ErrPreSharedKeyInvalid", EmptyString)
    ELSE NoCheckError

checkEndpoint(ws) ==
    IF ws.Endpoint.nil THEN CheckError("ErrEndpointMissing", EmptyString)
    ELSE IF ws.Endpoint.ip = NilIP THEN CheckError("ErrEndpointIPMissing", EmptyString)
    ELSE IF ws.Endpoint.port = 0 THEN CheckError("ErrEndpointPortMissing", EmptyString)
    ELSE NoCheckError

\* mutant of checkAllowedIP: an IPv6 network is rejected whatever the flag
checkAllowedIPNoFlag(ws, i) ==
    LET allowedIP == ws.AllowedIPs[i]
        n == Len(ws.AllowedIPs)
    IN  IF allowedIP.nil THEN CheckError("ErrAllowedIPIsNil", EntryOf(ForAllowedIP, i, n))
        ELSE IF allowedIP.ip = NilIP
             THEN CheckError("ErrAllowedIPIPIsNil", EntryOf(ForAllowedIP, i, n))
        ELSE IF IsIPv6(allowedIP.ip)
             THEN CheckError("ErrAllowedIPv6NotSupported", ForAllowedIP \o IPNetString(allowedIP))
        ELSE NoCheckError

\* the outcome of the entry i of the allowed IPs
checkAllowedIP(ws, i) ==
    LET allowedIP == ws.AllowedIPs[i]
        n == Len(ws.AllowedIPs)
    IN  IF allowedIP.nil THEN CheckError("ErrAllowedIPIsNil", EntryOf(ForAllowedIP, i, n))
        ELSE IF allowedIP.ip = NilIP
             THEN CheckError("ErrAllowedIPIPIsNil", EntryOf(ForAllowedIP, i, n))
        ELSE IF IsIPv6(allowedIP.ip) /\ ~ws.IPv6.val
             THEN CheckError("ErrAllowedIPv6NotSupported", ForAllowedIP \o IPNetString(allowedIP))
        ELSE NoCheckError

checkAllowedIPs(ws) ==
    IF Len(ws.AllowedIPs) = 0 THEN CheckError("ErrAllowedIPsMissing", EmptyString)
    ELSE FirstCheckError([i \in 1..Len(ws.AllowedIPs) |-> checkAllowedIP(ws, i)])

\* the outcome of the entry i of the addresses
checkAddress(ws, i) ==
    LET address == ws.Addresses[i]
        n == Len(ws.Addresses)
    IN  IF address.nil THEN CheckError("ErrAddressNil", EntryOf(ForAddress, i, n))
        ELSE IF address.ip = NilIP
             THEN CheckError("ErrAddressIPMissing", EntryOf(ForAddress, i, n))
        ELSE IF address.mask.nil
             THEN CheckError("ErrAddressMaskMissing", EntryOf(ForAddress, i, n))
        ELSE NoCheckError

checkAddresses(ws) ==
    IF Len(ws.Addresses) = 0 THEN CheckError("ErrAddressMissing", EmptyString)
    ELSE FirstCheckError([i \in 1..Len(ws.Addresses) |-> checkAddress(ws, i)])

checkFirewallMark(ws) ==
    IF ws.FirewallMark = 0 THEN CheckError("ErrFirewallMarkMissing", EmptyString)
    ELSE NoCheckError

checkImplementation(ws) ==
    IF ws.Implementation \notin Implementations
    THEN CheckError("ErrImplementationInvalid", ws.Implementation)
    ELSE NoCheckError

\* mutant of Check: the firewall mark is checked before the addresses
CheckFirewallMarkFirst(ws) ==
    FirstCheckError(<< checkInterfaceName(ws),
                       checkPrivateKey(ws),
                       checkPublicKey(ws),
                       checkPreSharedKey(ws),
                       checkEndpoint(ws),
                       checkAllowedIPs(ws),
                       checkFirewallMark(ws),
                       checkAddresses(ws),
                       checkImplementation(ws) >>)

Check(ws) ==
    FirstCheckError(<< checkInterfaceName(ws),
                       checkPrivateKey(ws),
                       checkPublicKey(ws),
                       checkPreSharedKey(ws),
                       checkEndpoint(ws),
                       checkAllowedIPs(ws),
                       checkAddresses(ws),
                       checkFirewallMark(ws),
                       checkImplementation(ws) >>)

\* ToLinesSettings: three *string, nil when not set
NilString == [set |-> FALSE, val |-> ""]

PtrString(str) == [set |-> TRUE, val |-> str]

ZeroToLinesSettings ==
    [Indent |-> NilString, FieldPrefix |-> NilString, LastFieldPrefix |-> NilString]

\* four spaces
DefaultIndent == "    "

\* mutant of toLinesSettingsSetDefaults: the given last-field prefix is
\* replaced by the default one
toLinesSettingsSetDefaultsLeafOnly(ls) ==
    [ Indent          |-> IF ls.Indent.set THEN ls.Indent ELSE PtrString(DefaultIndent),
      FieldPrefix     |-> IF ls.FieldPrefix.set THEN ls.FieldPrefix ELSE PtrString(BranchGlyph),
      LastFieldPrefix |-> PtrString(LeafGlyph) ]

\* ToLinesSettings.setDefaults
toLinesSettingsSetDefaults(ls) ==
    [ Indent          |-> IF ls.Indent.set THEN ls.Indent ELSE PtrString(DefaultIndent),
      FieldPrefix     |-> IF ls.FieldPrefix.set THEN ls.FieldPrefix ELSE PtrString(BranchGlyph),
      LastFieldPrefix |-> IF ls.LastFieldPrefix.set THEN ls.LastFieldPrefix
                          ELSE PtrString(LeafGlyph) ]

SetWord == <<"s", "e", "t">>

NotSetWord == <<"n", "o", "t", " ", "s", "e", "t">>

\* one line of ToLines: the indentation and prefix put before it, its
\* label and its value
WgLine(cond, indent, prefix, label, value) ==
    IF cond THEN << [indent |-> indent, prefix |-> prefix, label |-> label, value |-> value] >>
    ELSE << >>

\* Settings.ToLines
ToLines(ws, given) ==
    LET ls == toLinesSettingsSetDefaults(given)
        indent == ls.Indent.val
        fieldPrefix == ls.FieldPrefix.val
        lastFieldPrefix == ls.LastFieldPrefix.val
        n == Len(ws.Addresses)
    IN     WgLine(TRUE, "", fieldPrefix, "Interface name: ", ws.InterfaceName)
        \o WgLine(TRUE, "", fieldPrefix, "Private key: ",
                   IF ws.PrivateKey # EmptyString THEN SetWord ELSE NotSetWord)
        \o WgLine(ws.PublicKey # EmptyString, "", fieldPrefix, "PublicKey: ", ws.PublicKey)
        \o WgLine(TRUE, "", fieldPrefix, "Pre shared key: ",
                   IF ws.PreSharedKey # EmptyString THEN SetWord ELSE NotSetWord)
        \o WgLine(TRUE, "", fieldPrefix, "Endpoint: ",
                   IF ws.Endpoint.nil THEN NotSetWord ELSE UDPAddrString(ws.Endpoint))
        \o WgLine(TRUE, "", fieldPrefix, "IPv6: ",
                   IF ws.IPv6.val THEN <<"e", "n", "a", "b", "l", "e", "d">> ELSE <<"d", "i", "s", "a", "b", "l", "e", "d">>)
        \o WgLine(ws.FirewallMark # 0, "", fieldPrefix, "Firewall mark: ", Itoa(ws.FirewallMark))
        \o WgLine(ws.RulePriority # 0, "", fieldPrefix, "Rule priority: ", Itoa(ws.RulePriority))
        \o WgLine(TRUE, "", fieldPrefix, "Implementation: ", ws.Implementation)
        \o WgLine(n = 0, "", lastFieldPrefix, "Addresses: ", NotSetWord)
        \o WgLine(n > 0, "", lastFieldPrefix, "Addresses:", EmptyString)
        \o [i \in 1..n |->
              [indent |-> indent,
               prefix |-> IF i = n THEN lastFieldPrefix ELSE fieldPrefix,
               label  |-> "",
               value  |-> IPNetString(ws.Addresses[i])]]

(***************************************************************************)
(* The environment source (package env): readWireguard.  The environment   *)
(* maps each variable to whether it is set and to its value.               *)
(***************************************************************************)
EnvKeys ==
    {"WIREGUARD_PRIVATE_KEY", "WIREGUARD_PRESHARED_KEY", "VPN_INTERFACE",
     "WIREGUARD_INTERFACE", "WIREGUARD_IMPLEMENTATION", "WIREGUARD_ALLOWED_IPS",
     "WIREGUARD_ADDRESSES", "WIREGUARD_ADDRESS"}

Unset == [set |-> FALSE, val |-> EmptyString]

\* os.Getenv: the empty string for a variable that is not set
Getenv(env, key) == IF env[key].set THEN env[key].val ELSE EmptyString

\* unicode.IsSpace: the characters of Unicode's White_Space property.  A
\* character that has no escape in a string is written as its code point:
\* "<000B>" is the vertical tab, "<0085>" the next line, "<00A0>" the
\* no-break space.
WhiteSpace ==
    {"\t", "\n", "<000B>", "\f", "\r", " ", "<0085>", "<00A0>", "<1680>",
     "<2000>", "<2001>", "<2002>", "<2003>", "<2004>", "<2005>", "<2006>",
     "<2007>", "<2008>", "<2009>", "<200A>", "<2028>", "<2029>", "<202F>",
     "<205F>", "<3000>"}

\* strings.TrimSpace: the white space of Unicode is cut at both ends
RECURSIVE TrimLeft(_)
TrimLeft(str) ==
    IF str # << >> /\ str[1] \in WhiteSpace THEN TrimLeft(Tail(str)) ELSE str

RECURSIVE TrimRight(_)
TrimRight(str) ==
    IF str # << >> /\ str[Len(str)] \in WhiteSpace
    THEN TrimRight(SubSeq(str, 1, Len(str) - 1)) ELSE str

TrimSpace(str) == TrimRight(TrimLeft(str))

\* the value of a variable without the white space and line ends around it
getCleanedEnv(env, key) == TrimSpace(Getenv(env, key))

\* nil for a variable that is unset or empty, else a pointer to its value
envToStringPtr(env, key) ==
    LET str == getCleanedEnv(env, key)
    IN  IF str = EmptyString THEN [set |-> FALSE, val |-> EmptyString]
        ELSE [set |-> TRUE, val |-> str]

\* strings.Split(str, ",")
RECURSIVE Split(_)
Split(str) ==
    IF \A j \in 1..Len(str) : str[j] # "," THEN << str >>
    ELSE LET k == CHOOSE j \in 1..Len(str) :
                     str[j] = "," /\ \A i \in 1..(j - 1) : str[i] # ","
         IN  << SubSeq(str, 1, k - 1) >> \o Split(SubSeq(str, k + 1, Len(str)))

UpperChars ==
    <<"A", "B", "C", "D", "E", "F", "G", "H", "I", "J", "K", "L", "M",
      "N", "O", "P", "Q", "R", "S", "T", "U", "V", "W", "X", "Y", "Z">>

LowerChars ==
    <<"a", "b", "c", "d", "e", "f", "g", "h", "i", "j", "k", "l", "m",
      "n", "o", "p", "q", "r", "s", "t", "u", "v", "w", "x", "y", "z">>

\* strings.ToLower
ToLower(str) ==
    [j \in 1..Len(str) |->
        IF str[j] \in Upper
        THEN LowerChars[CHOOSE k \in 1..26 : UpperChars[k] = str[j]]
        ELSE str[j]]

\* the comma separated values of a variable in lower case, none when it is
\* unset or empty
envToCSV(env, key) ==
    LET csv == getCleanedEnv(env, key)
    IN  IF csv = EmptyString THEN << >> ELSE Split(ToLower(csv))

\* the retro-compatible key and its value when that variable is not empty,
\* else the current key and its value
getEnvWithRetro(env, currentKey, retroKey) ==
    IF getCleanedEnv(env, retroKey) # EmptyString
    THEN [key |-> retroKey, value |-> getCleanedEnv(env, retroKey)]
    ELSE [key |-> currentKey, value |-> getCleanedEnv(env, currentKey)]

\* the number a string of decimal digits stands for
RECURSIVE Atoi(_)
Atoi(str) ==
    IF str = << >> THEN 0
    ELSE 10 * Atoi(SubSeq(str, 1, Len(str) - 1))
           + ((CHOOSE k \in 1..10 : DigitChars[k] = str[Len(str)]) - 1)

IsDecimal(str, maxDigits) ==
    /\ Len(str) \in 1..maxDigits
    /\ \A j \in 1..Len(str) : str[j] \in Digit

\* strings.Split(str, ".")
RECURSIVE SplitDots(_)
SplitDots(str) ==
    IF \A j \in 1..Len(str) : str[j] # "." THEN << str >>
    ELSE LET k == CHOOSE j \in 1..Len(str) :
                     str[j] = "." /\ \A i \in 1..(j - 1) : str[i] # "."
         IN  << SubSeq(str, 1, k - 1) >> \o SplitDots(SubSeq(str, k + 1, Len(str)))

\* a dotted IPv4 address: four decimal fields of at most 255 without a
\* leading zero
IsIPv4Text(str) ==
    LET fields == SplitDots(str)
    IN  /\ Len(fields) = 4
        /\ \A j \in 1..4 :
              /\ IsDecimal(fields[j], 3)
              /\ Atoi(fields[j]) <= 255
              /\ Len(fields[j]) > 1 => fields[j][1] # "0"

\* the four bytes of a dotted IPv4 address
IPv4Bytes(str) == [j \in 1..4 |-> Atoi(SplitDots(str)[j])]

UpperHexChars ==
    <<"0", "1", "2", "3", "4", "5", "6", "7", "8", "9", "A", "B", "C", "D", "E", "F">>

IsHexChar(c) ==
    \E k \in 1..16 : HexChars[k] = c \/ UpperHexChars[k] = c

\* the number of hexadecimal digits, of either case, str starts with
RECURSIVE HexRun(_)
HexRun(str) ==
    IF str # << >> /\ IsHexChar(str[1]) THEN 1 + HexRun(Tail(str)) ELSE 0

\* the number a string of hexadecimal digits stands for
RECURSIVE HexNumber(_)
HexNumber(str) ==
    IF str = << >> THEN 0
    ELSE 16 * HexNumber(SubSeq(str, 1, Len(str) - 1))
           + ((CHOOSE k \in 1..16 :
                   HexChars[k] = str[Len(str)] \/ UpperHexChars[k] = str[Len(str)]) - 1)

\* the two 16-bit groups of four bytes
GroupsOf(bytes) == << 256 * bytes[1] + bytes[2], 256 * bytes[3] + bytes[4] >>

\* where the loop of netip's parseIPv6 stands: whether it failed, the 16-bit
\* groups read, the number of groups before the "::" (-1 when none was
\* read) and what is left to read
IPv6Read(ok, groups, ellipsis, rest) ==
    [ok |-> ok, groups |-> groups, ellipsis |-> ellipsis, rest |-> rest]

RECURSIVE parseIPv6Groups(_, _, _)
RECURSIVE parseIPv6Group(_, _, _, _)
RECURSIVE parseIPv6Colon(_, _, _)

\* the loop of parseIPv6 at its head (for i < 16)
parseIPv6Groups(str, groups, ellipsis) ==
    IF Len(groups) >= 8 THEN IPv6Read(TRUE, groups, ellipsis, str)
    ELSE parseIPv6Group(str, HexRun(str), groups, ellipsis)

\* the group str starts with, of off hexadecimal digits: one to four
\* digits; a dotted IPv4 address may stand for the last two groups
parseIPv6Group(str, off, groups, ellipsis) ==
    IF off > 4 \/ off = 0 THEN IPv6Read(FALSE, groups, ellipsis, str)
    ELSE IF off < Len(str) /\ str[off + 1] = "."
         THEN IF \/ ellipsis < 0 /\ Len(groups) # 6
                 \/ Len(groups) + 2 > 8
                 \/ ~IsIPv4Text(str)
              THEN IPv6Read(FALSE, groups, ellipsis, str)
              ELSE IPv6Read(TRUE, groups \o GroupsOf(IPv4Bytes(str)), ellipsis, << >>)
    ELSE parseIPv6Colon(SubSeq(str, off + 1, Len(str)),
                        groups \o << HexNumber(SubSeq(str, 1, off)) >>, ellipsis)

\* what follows a group: the end of the text, a colon and more, or the "::"
parseIPv6Colon(rest, groups, ellipsis) ==
    IF rest = << >> THEN IPv6Read(TRUE, groups, ellipsis, << >>)
    ELSE IF rest[1] # ":" \/ Len(rest) = 1 THEN IPv6Read(FALSE, groups, ellipsis, rest)
    ELSE IF rest[2] = ":"
         THEN IF ellipsis >= 0 THEN IPv6Read(FALSE, groups, ellipsis, rest)
              ELSE IF Len(rest) = 2 THEN IPv6Read(TRUE, groups, Len(groups), << >>)
              ELSE parseIPv6Groups(SubSeq(rest, 3, Len(rest)), groups, Len(groups))
    ELSE parseIPv6Groups(Tail(rest), groups, ellipsis)

\* the end of parseIPv6: the whole text was read, and the "::" stands for
\* the one or more zero groups that are missing
expandEllipsis(r) ==
    IF ~r.ok \/ r.rest # << >> THEN [ok |-> FALSE, groups |-> << >>]
    ELSE IF Len(r.groups) < 8
         THEN IF r.ellipsis < 0 THEN [ok |-> FALSE, groups |-> << >>]
              ELSE [ok |-> TRUE,
                    groups |-> SubSeq(r.groups, 1, r.ellipsis)
                                 \o [j \in 1..(8 - Len(r.groups)) |-> 0]
                                 \o SubSeq(r.groups, r.ellipsis + 1, Len(r.groups))]
    ELSE IF r.ellipsis >= 0 THEN [ok |-> FALSE, groups |-> << >>]
    ELSE [ok |-> TRUE, groups |-> r.groups]

\* netip's parseIPv6 on an address without a zone: the eight groups of the
\* address
parseIPv6(str) ==
    IF str = <<":", ":">> THEN [ok |-> TRUE, groups |-> <<0, 0, 0, 0, 0, 0, 0, 0>>]
    ELSE IF Len(str) >= 2 /\ str[1] = ":" /\ str[2] = ":"
         THEN expandEllipsis(parseIPv6Groups(SubSeq(str, 3, Len(str)), << >>, 0))
    ELSE expandEllipsis(parseIPv6Groups(str, << >>, -1))

\* net.IP.To4 on the sixteen bytes of an address: the four bytes of an
\* IPv4-mapped address (::ffff:a.b.c.d), nil for any other address
To4(groups) ==
    IF SubSeq(groups, 1, 5) = <<0, 0, 0, 0, 0>> /\ groups[6] = 65535
    THEN << groups[7] \div 256, groups[7] % 256, groups[8] \div 256, groups[8] % 256 >>
    ELSE NilIP

\* the address of 128 bits that parseIPv6 read.  A net.IP of sixteen bytes
\* whose To4 is not nil is an IPv4 address, which is four bytes here; any
\* other keeps its eight groups.
AddrFrom16(r) ==
    IF ~r.ok THEN [ok |-> FALSE, ip |-> NilIP, bits |-> 0]
    ELSE IF To4(r.groups) # NilIP THEN [ok |-> TRUE, ip |-> To4(r.groups), bits |-> 128]
    ELSE [ok |-> TRUE, ip |-> r.groups, bits |-> 128]

\* netip.ParseAddr: the first of '.', ':' and '%' in the text decides how it
\* is read; bits is the bit length of the address (32 or 128).  net.ParseCIDR
\* refuses an address with a zone, so every text with a '%' fails.
ParseAddr(str) ==
    LET marks == {j \in 1..Len(str) : str[j] \in {".", ":", "%"}}
        first == CHOOSE j \in marks : \A i \in marks : j <= i
    IN  IF marks = {} \/ \E j \in marks : str[j] = "%"
        THEN [ok |-> FALSE, ip |-> NilIP, bits |-> 0]
        ELSE IF str[first] = ":" THEN AddrFrom16(parseIPv6(str))
        ELSE IF IsIPv4Text(str) THEN [ok |-> TRUE, ip |-> IPv4Bytes(str), bits |-> 32]
        ELSE [ok |-> FALSE, ip |-> NilIP, bits |-> 0]

\* net's dtoi: the decimal number str starts with and the number of its
\* digits, leading zeros included; it fails without a digit and from
\* 0xFFFFFF on
RECURSIVE dtoiFrom(_, _, _)
dtoiFrom(str, i, n) ==
    LET big == 16777215
        m == n * 10 + ((CHOOSE k \in 1..10 : DigitChars[k] = str[i + 1]) - 1)
    IN  IF i < Len(str) /\ str[i + 1] \in Digit
        THEN IF m >= big THEN [n |-> big, i |-> i, ok |-> FALSE]
             ELSE dtoiFrom(str, i + 1, m)
        ELSE IF i = 0 THEN [n |-> 0, i |-> 0, ok |-> FALSE]
        ELSE [n |-> n, i |-> i, ok |-> TRUE]

dtoi(str) == dtoiFrom(str, 0, 0)

\* the network of an address and a prefix length written in maskLen
\* characters: the mask has as many bits as the address was written with
cidrOf(addr, ones, maskLen) ==
    IF ~addr.ok \/ ~ones.ok \/ ones.i # maskLen \/ ones.n > addr.bits
    THEN [ok |-> FALSE, net |-> NilIPNet]
    ELSE [ok |-> TRUE, net |-> CIDR(addr.ip, ones.n, addr.bits)]

\* net.ParseCIDR, and the IP of the network set to the address given
\* (ipNet.IP = ip): the text is cut at its first '/', the address is read by
\* ParseAddr and the prefix length by dtoi
ParseCIDR(str) ==
    LET slashes == {j \in 1..Len(str) : str[j] = "/"}
        k == CHOOSE j \in slashes : \A i \in slashes : j <= i
    IN  IF slashes = {} THEN [ok |-> FALSE, net |-> NilIPNet]
        ELSE cidrOf(ParseAddr(SubSeq(str, 1, k - 1)),
                    dtoi(SubSeq(str, k + 1, Len(str))), Len(str) - k)

NoReadError == [key |-> "", sentinel |-> "nil"]

\* the networks of a list of strings, or the error of the first that does
\* not parse, wrapped with the name of the variable
parseNetworks(strs, key) ==
    LET parsed == [j \in 1..Len(strs) |-> ParseCIDR(TrimSpace(strs[j]))]
    IN  IF \E j \in 1..Len(strs) : ~parsed[j].ok
        THEN [nets |-> << >>, err |-> [key |-> key, sentinel |-> "net.ParseError"]]
        ELSE [nets |-> [j \in 1..Len(strs) |-> parsed[j].net], err |-> NoReadError]

readWireguardAllowedIPs(env) ==
    parseNetworks(envToCSV(env, "WIREGUARD_ALLOWED_IPS"), "WIREGUARD_ALLOWED_IPS")

readWireguardAddresses(env) ==
    LET kv == getEnvWithRetro(env, "WIREGUARD_ADDRESSES", "WIREGUARD_ADDRESS")
    IN  IF kv.value = EmptyString THEN [nets |-> << >>, err |-> NoReadError]
        ELSE parseNetworks(Split(kv.value), kv.key)

\* unsetEnvKeys: every key is unset, and the error given is the one returned
\* (os.Unsetenv does not fail on these names)
unsetEnvKeys(env, envKeys, e) ==
    [environ |-> [k \in EnvKeys |-> IF k \in envKeys THEN Unset ELSE env[k]],
     err |-> e]

\* the statements of readWireguard: the fragment and the error at its
\* return statement
readWireguardBody(env) ==
    LET allowedIPs == readWireguardAllowedIPs(env)
        addresses == readWireguardAddresses(env)
    IN  [ wireguard |->
            [ PrivateKey     |-> envToStringPtr(env, "WIREGUARD_PRIVATE_KEY"),
              PreSharedKey   |-> envToStringPtr(env, "WIREGUARD_PRESHARED_KEY"),
              Interface      |-> getEnvWithRetro(env, "VPN_INTERFACE", "WIREGUARD_INTERFACE").value,
              Implementation |-> Getenv(env, "WIREGUARD_IMPLEMENTATION"),
              AllowedIPs     |-> allowedIPs.nets,
              Addresses      |-> IF allowedIPs.err # NoReadError THEN << >> ELSE addresses.nets ],
          err |->
            IF allowedIPs.err # NoReadError THEN allowedIPs.err
            ELSE IF addresses.err # NoReadError THEN addresses.err
            ELSE NoReadError ]

\* mutant of readWireguard: the keys are unset before the last return
\* statement only, not in a deferred function
readWireguardUnsetAtEnd(env) ==
    LET body == readWireguardBody(env)
        unset == unsetEnvKeys(env, {"WIREGUARD_PRIVATE_KEY", "WIREGUARD_PRESHARED_KEY"}, body.err)
    IN  [ wireguard |-> body.wireguard,
          err |-> body.err,
          environ |-> IF body.err # NoReadError THEN env ELSE unset.environ ]

\* readWireguard: what it returns and the environment it leaves; the
\* deferred unsetEnvKeys runs at every return and gives the error returned
readWireguard(env) ==
    LET body == readWireguardBody(env)
        deferred == unsetEnvKeys(env, {"WIREGUARD_PRIVATE_KEY", "WIREGUARD_PRESHARED_KEY"}, body.err)
    IN  [ wireguard |-> body.wireguard,
          err |-> deferred.err,
          environ |-> deferred.environ ]

(***************************************************************************)
(* Heap housekeeping.  Go addresses are observable only through aliasing,  *)
(* and a cell no struct points to is garbage: after every method the cells *)
(* of each field are renumbered in the order o, other, copied first point  *)
(* to them, and the unreachable ones are dropped.                          *)
(***************************************************************************)
\* the address of a cell is the number of the first of o, other, copied
\* that points to it, counting only the structs that own a cell
Renumbered(ps, i) ==
    LET first == IF ps[1] = Nil THEN 0 ELSE 1
        second == IF ps[2] = Nil \/ ps[2] = ps[1] THEN 0 ELSE 1
    IN  IF ps[i] = Nil THEN Nil
        ELSE IF i = 1 \/ ps[i] = ps[1] THEN 1
        ELSE IF i = 2 \/ ps[i] = ps[2] THEN first + 1
        ELSE first + second + 1

LiveCells(m, ps) ==
    (IF ps[1] = Nil THEN << >> ELSE << m[ps[1]] >>)
    \o (IF ps[2] = Nil \/ ps[2] = ps[1] THEN << >> ELSE << m[ps[2]] >>)
    \o (IF ps[3] = Nil \/ ps[3] = ps[1] \/ ps[3] = ps[2] THEN << >> ELSE << m[ps[3]] >>)

Owners(a, b, c, f) == <<a[f], b[f], c[f]>>

Reown(a, b, c, i) ==
    [f \in Fields |->
        IF f \in StringFields THEN <<a, b, c>>[i][f]
        ELSE Renumbered(Owners(a, b, c, f), i)]

Collected(hp, a, b, c) ==
    [h      |-> [f \in RefFields |-> LiveCells(hp[f], Owners(a, b, c, f))],
     o      |-> Reown(a, b, c, 1),
     other  |-> Reown(a, b, c, 2),
     copied |-> Reown(a, b, c, 3)]

(***************************************************************************)
(* Source fragments: what a source reader hands to the algebra.  A source  *)
(* sets some fields and leaves the others absent.                          *)
(***************************************************************************)
\* two values a source may give each field; for pointer and slice fields
\* the first is the explicit empty/zero value
FieldValues(f) ==
    CASE f = "Version"       -> << Openvpn26, Openvpn25 >>
      [] f = "User"          -> << EmptyString, <<"u">> >>
      [] f = "Password"      -> << EmptyString, <<"p">> >>
      [] f = "ConfFile"      -> << EmptyString, <<"/", "c">> >>
      [] f = "Ciphers"       -> << << >>, << <<"a", "e", "s">> >> >>
      [] f = "Auth"          -> << EmptyString, <<"s", "h", "a">> >>
      [] f = "Cert"          -> << EmptyString, <<"Y", "Q", "=", "=">> >>
      [] f = "Key"           -> << EmptyString, <<"Y", "g", "=", "=">> >>
      [] f = "EncryptedKey"  -> << EmptyString, <<"Y", "w", "=", "=">> >>
      [] f = "KeyPassphrase" -> << EmptyString, <<"k">> >>
      [] f = "PIAEncPreset"  -> << EmptyString, <<"n", "o", "n", "e">> >>
      [] f = "MSSFix"        -> << 0, 1400 >>
      [] f = "Interface"     -> << <<"t", "u", "n", "1">>, Tun0 >>
      [] f = "ProcessUser"   -> << <<"v", "p", "n">>, Root >>
      [] f = "Verbosity"     -> << 0, 3 >>
      [] f = "Flags"         -> << << >>, << <<"-", "x">> >> >>

\* 0: the source leaves the field absent
StateIndex == {0, 1, 2}

StateOf(f, i) == IF i = 0 THEN Absent(f) ELSE Present(f, FieldValues(f)[i])

\* the Go value of a fragment whose field f is in state lit[f]
NewOpenVPN(hp, lit) ==
    Collect(hp,
      [f \in Fields |->
          IF f \in StringFields THEN Scalar(lit[f].val)
          ELSE IF lit[f].set THEN New(hp[f], lit[f].val)
          ELSE [p |-> Nil, m |-> hp[f]]])

\* the fields one source sets: the struct's fields in groups of FocusWidth
\* neighbours
Focus ==
    {{FieldOrder[j] : j \in {k \in 1..Len(FieldOrder) :
                               (g - 1) * FocusWidth < k /\ k <= g * FocusWidth}} :
        g \in 1..((Len(FieldOrder) + FocusWidth - 1) \div FocusWidth)}

Fragment(W, c) == [f \in Fields |-> IF f \in W THEN StateOf(f, c[f]) ELSE Absent(f)]

\* the providers that decide a default, and one that decides none
PipelineProviders == {Mullvad, PrivateInternetAccess, Ivpn}

\* the provider validate is asked about before any default was taken
ValidateProviders == {Airvpn}

Snapshot(hp, a, c) == [o |-> View(hp, a), copied |-> View(hp, c)]

\* no provider has been handed to a method yet
NoProvider == ""

\* two source fragments, each with some of the same neighbouring fields set
Init ==
    \E W \in Focus :
      \E ca \in [W -> StateIndex], cb \in [W -> StateIndex] :
        LET a == NewOpenVPN(EmptyHeap, Fragment(W, ca))
            b == NewOpenVPN(a.h, Fragment(W, cb))
        IN  /\ h = b.h
            /\ o = a.s
            /\ other = b.s
            /\ copied = ZeroOpenVPN
            /\ vpnProvider = NoProvider
            /\ op = "init"
            /\ pre = Snapshot(b.h, a.s, ZeroOpenVPN)
            /\ err = NoError
            /\ nDefaults = 0
            /\ lateCombine = FALSE
            /\ Elsewhere

(***************************************************************************)
(* The methods as steps of a caller that holds o, other and copied.        *)
(***************************************************************************)
\* the caller's variables after a method left the heap hp and the structs a, b, c
Store(hp, a, b, c) ==
    LET n == Collected(hp, a, b, c)
    IN  /\ h' = n.h
        /\ o' = n.o
        /\ other' = n.other
        /\ copied' = n.copied

Once(n) == IF n = 0 THEN 1 ELSE 2

MergeWith ==
    LET r == mergeWith(h, o, other)
    IN  /\ Store(r.h, r.s, other, copied)
        /\ op' = "mergeWith"
        /\ pre' = Snapshot(h, o, copied)
        /\ lateCombine' = (lateCombine \/ nDefaults > 0)
        /\ err' = NoError
        /\ UNCHANGED <<vpnProvider, nDefaults, elsewhere>>

OverrideWith ==
    LET r == overrideWith(h, o, other)
    IN  /\ Store(r.h, r.s, other, copied)
        /\ op' = "overrideWith"
        /\ pre' = Snapshot(h, o, copied)
        /\ lateCombine' = (lateCombine \/ nDefaults > 0)
        /\ err' = NoError
        /\ UNCHANGED <<vpnProvider, nDefaults, elsewhere>>

\* o = o.WithDefaults(vpnProvider)
CallWithDefaults ==
    \E provider \in PipelineProviders :
      LET r == WithDefaults(h, o, provider)
      IN  /\ Store(r.h, r.s, other, copied)
          /\ vpnProvider' = provider
          /\ op' = "WithDefaults"
          /\ pre' = Snapshot(h, o, copied)
          /\ nDefaults' = Once(nDefaults)
          /\ err' = NoError
          /\ UNCHANGED <<lateCombine, elsewhere>>

\* copied = o.copy()
Copy ==
    LET r == copy(h, o)
    IN  /\ op = "init"
        /\ Store(r.h, o, other, r.s)
        /\ op' = "copy"
        /\ pre' = Snapshot(h, o, copied)
        /\ UNCHANGED <<vpnProvider, err, nDefaults, lateCombine, elsewhere>>

\* the value a later writer stores in a cell of field f
Scribble(f, v) ==
    IF f \in IntFields THEN v + 1
    ELSE IF f \in SliceFields THEN [v EXCEPT ![1] = <<"z">>]
    ELSE <<"z">>

\* a write through the pointer of field f of struct s: *s.f = ..., s.f[0] = ...
Written(hp, s, f) == [hp EXCEPT ![f][s[f]] = Scribble(f, @)]

CanWrite(hp, s, f) ==
    /\ s[f] # Nil
    /\ f \in SliceFields => Len(Deref(hp, s, f)) > 0

\* the holder of the copy writes through one of its pointers
MutateCopied ==
    /\ op = "copy"
    /\ \E f \in RefFields :
        /\ CanWrite(h, copied, f)
        /\ Store(Written(h, copied, f), o, other, copied)
    /\ op' = "mutateCopied"
    /\ pre' = Snapshot(h, o, copied)
    /\ UNCHANGED <<vpnProvider, err, nDefaults, lateCombine, elsewhere>>

\* the holder of the original writes through one of its pointers
MutateOriginal ==
    /\ op = "copy"
    /\ \E f \in RefFields :
        /\ CanWrite(h, o, f)
        /\ Store(Written(h, o, f), o, other, copied)
    /\ op' = "mutateOriginal"
    /\ pre' = Snapshot(h, o, copied)
    /\ UNCHANGED <<vpnProvider, err, nDefaults, lateCombine, elsewhere>>

\* err = o.validate(provider), with the provider the defaults were taken for
\* once there is one
Validate ==
    \E provider \in IF vpnProvider = NoProvider THEN ValidateProviders ELSE {vpnProvider} :
        /\ op # "validate"
        /\ err' = validate(h, o, provider)
        /\ op' = "validate"
        /\ pre' = Snapshot(h, o, copied)
        /\ vpnProvider' = provider
        /\ UNCHANGED <<h, o, other, copied, nDefaults, lateCombine, elsewhere>>

\* text of o and of other: o.String(), other.String()
CallString ==
    /\ op # "String"
    /\ text' = [o |-> String(h, o), other |-> String(h, other)]
    /\ op' = "String"
    /\ pre' = Snapshot(h, o, copied)
    /\ UNCHANGED <<h, o, other, copied, vpnProvider, err, nDefaults, lateCombine,
                   wireguardVars, envVars>>

Next ==
    \/ MergeWith
    \/ OverrideWith
    \/ CallWithDefaults
    \/ Validate

Spec == Init /\ [][Next]_vars

(***************************************************************************)
(* validate on resolved values: a value that passes every check for every  *)
(* provider, with up to MaxPerturbed of the validated fields changed.      *)
(***************************************************************************)
Resolved ==
    [ Version       |-> Present("Version", Openvpn25),
      User          |-> Present("User", <<"u">>),
      Password      |-> Present("Password", <<"p">>),
      ConfFile      |-> Present("ConfFile", <<"/", "o", "k">>),
      Ciphers       |-> Absent("Ciphers"),
      Auth          |-> Present("Auth", EmptyString),
      Cert          |-> Present("Cert", <<"Y", "Q", "=", "=">>),
      Key           |-> Present("Key", <<"Y", "g", "=", "=">>),
      EncryptedKey  |-> Present("EncryptedKey", <<"Y", "w", "=", "=">>),
      KeyPassphrase |-> Present("KeyPassphrase", <<"k">>),
      PIAEncPreset  |-> Present("PIAEncPreset", EmptyString),
      MSSFix        |-> Present("MSSFix", 0),
      Interface     |-> Present("Interface", Tun0),
      ProcessUser   |-> Present("ProcessUser", Root),
      Verbosity     |-> Present("Verbosity", 1),
      Flags         |-> Absent("Flags") ]

\* the other values a validated field takes
Alternatives(f) ==
    CASE f = "Version"       -> << Openvpn26, <<"2", ".", "4">>, EmptyString >>
      [] f = "User"          -> << EmptyString,
                                   <<"i", "-", "a", "1", "B", "2", "-", "c", "3", "D", "4",
                                     "-", "e", "5", "F", "6">>,
                                   <<"i", "v", "p", "n", "-", "a", "1", "B", "2", "-", "c", "3",
                                     "D", "4", "-", "e", "5", "F", "6">>,
                                   <<"i", "-", "a", "1", "B", "2", "-", "c", "3", "D", "4",
                                     "-", "e", "5", "F">>,
                                   <<"x", "-", "a", "1", "B", "2", "-", "c", "3", "D", "4",
                                     "-", "e", "5", "F", "6">> >>
      [] f = "Password"      -> << EmptyString >>
      [] f = "ConfFile"      -> << EmptyString, <<"/", "n", "o">>, <<"/", "b", "a", "d">> >>
      [] f = "Cert"          -> << EmptyString, <<"Y", "Q">>, <<"Y", "!", "=", "=">> >>
      [] f = "Key"           -> << EmptyString, <<"Y", "g", "=">> >>
      [] f = "EncryptedKey"  -> << EmptyString, <<"Y", "w", "=", "=", "Y", "w", "=", "=">> >>
      [] f = "KeyPassphrase" -> << EmptyString >>
      [] f = "MSSFix"        -> << 1400, maxMSSFix, maxMSSFix + 1, 65535 >>
      [] f = "Interface"     -> << EmptyString, <<"t", "u", "n", " ", "0">>, <<"t", "u", "n", "_", "1">> >>
      [] f = "Verbosity"     -> << 0 - 1, 0, 5, 6, 7 >>

ValidatedFields ==
    {"Version", "User", "Password", "ConfFile", "Cert", "Key", "EncryptedKey",
     "KeyPassphrase", "MSSFix", "Interface", "Verbosity"}

Perturbed(P, c) ==
    [f \in Fields |->
        IF f \in P THEN Present(f, Alternatives(f)[c[f]]) ELSE Resolved[f]]

InitValidate ==
    \E P \in {Q \in SUBSET ValidatedFields : Cardinality(Q) <= MaxPerturbed} :
      \E c \in {d \in [P -> 1..5] : \A f \in P : d[f] <= Len(Alternatives(f))} :
        \E provider \in Providers :
          LET a == NewOpenVPN(EmptyHeap, Perturbed(P, c))
          IN  /\ h = a.h
              /\ o = a.s
              /\ other = ZeroOpenVPN
              /\ copied = ZeroOpenVPN
              /\ vpnProvider = provider
              /\ op = "init"
              /\ pre = Snapshot(a.h, a.s, ZeroOpenVPN)
              /\ err = NoError
              /\ nDefaults = 1
              /\ lateCombine = FALSE
              /\ Elsewhere

NextValidate == Validate

SpecValidate == InitValidate /\ [][NextValidate]_vars

(***************************************************************************)
(* copy() and later writes through the pointers of the two values.         *)
(***************************************************************************)
\* any value of the struct: a fragment, with the fields it leaves alone
\* all absent or all set
InitCopy ==
    \E W \in Focus :
      \E c \in [W -> StateIndex], bg \in StateIndex :
        LET a == NewOpenVPN(EmptyHeap,
                   [f \in Fields |-> StateOf(f, IF f \in W THEN c[f] ELSE bg)])
        IN  /\ h = a.h
            /\ o = a.s
            /\ other = ZeroOpenVPN
            /\ copied = ZeroOpenVPN
            /\ vpnProvider = NoProvider
            /\ op = "init"
            /\ pre = Snapshot(a.h, a.s, ZeroOpenVPN)
            /\ err = NoError
            /\ nDefaults = 0
            /\ lateCombine = FALSE
            /\ Elsewhere

NextCopy ==
    \/ Copy
    \/ MutateCopied
    \/ MutateOriginal

SpecCopy == InitCopy /\ [][NextCopy]_vars

(***************************************************************************)
(* String() on fragments, on defaulted values and on pairs of resolved     *)
(* values that differ in one secret.                                       *)
(***************************************************************************)
SecretFields == {"User", "Password", "Cert", "Key", "EncryptedKey", "KeyPassphrase"}

\* two keys of 44 characters
LongKey1 ==
    <<"o", "M", "N", "S", "f", "/", "z", "J", "0", "p", "t", "1", "c", "i", "y", "+",
      "q", "I", "R", "k", "8", "R", "l", "y", "f", "s", "9", "a", "c", "c", "w", "u",
      "R", "L", "n", "K", "d", "8", "5", "Y", "l", "1", "Q", "=">>

LongKey2 ==
    <<"a", "P", "j", "c", "9", "U", "S", "5", "I", "C", "B", "3", "0", "D", "1", "P",
      "4", "g", "l", "R", "9", "t", "O", "7", "b", "k", "B", "2", "G", "a", "+", "K",
      "Z", "i", "F", "q", "n", "o", "y", "p", "B", "H", "k", "=">>

\* the values a secret of o takes, and those the same secret of other takes
SecretValues == << EmptyString, <<"q">>, LongKey1 >>

OtherSecretValues == { <<"z">>, LongKey2 }

WithSecrets(P, c) ==
    [f \in Fields |->
        IF f \in P THEN Present(f, SecretValues[c[f]]) ELSE Resolved[f]]

InitRender ==
    /\ \/ \E P \in {Q \in SUBSET SecretFields : Cardinality(Q) < MaxPerturbed} :
            \E c \in [P -> 1..Len(SecretValues)], F \in SecretFields, v \in OtherSecretValues :
              LET a == NewOpenVPN(EmptyHeap, WithSecrets(P, c))
                  b == NewOpenVPN(a.h, [WithSecrets(P, c) EXCEPT ![F] = Present(F, v)])
              IN  /\ h = b.h
                  /\ o = a.s
                  /\ other = b.s
                  /\ pre = Snapshot(b.h, a.s, ZeroOpenVPN)
       \/ \E W \in Focus :
            \E c \in [W -> StateIndex] :
              LET a == NewOpenVPN(EmptyHeap, Fragment(W, c))
              IN  /\ h = a.h
                  /\ o = a.s
                  /\ other = ZeroOpenVPN
                  /\ pre = Snapshot(a.h, a.s, ZeroOpenVPN)
    /\ copied = ZeroOpenVPN
    /\ vpnProvider = NoProvider
    /\ op = "init"
    /\ err = NoError
    /\ nDefaults = 0
    /\ lateCombine = FALSE
    /\ Elsewhere

NextRender ==
    \/ CallWithDefaults
    \/ CallString

SpecRender == InitRender /\ [][NextRender]_vars

(***************************************************************************)
(* WireGuard: Check and ToLines on settings that are valid except for up   *)
(* to MaxPerturbed fields, and on the zero Settings.                       *)
(***************************************************************************)
\* the OpenVPN side while only WireGuard methods run
NoOpenVPN ==
    /\ h = EmptyHeap
    /\ o = ZeroOpenVPN
    /\ other = ZeroOpenVPN
    /\ copied = ZeroOpenVPN
    /\ vpnProvider = NoProvider
    /\ pre = Snapshot(EmptyHeap, ZeroOpenVPN, ZeroOpenVPN)
    /\ err = NoError
    /\ nDefaults = 0
    /\ lateCombine = FALSE
    /\ text = [o |-> NoText, other |-> NoText]

\* the environment source while only Settings methods run
NoEnv ==
    /\ environ = << >>
    /\ envBefore = << >>
    /\ wireguard = << >>
    /\ readErr = << >>

BadKey == <<"b", "a", "d", " ", "k", "e", "y">>

\* settings that pass every check
ValidSettings ==
    [ InterfaceName  |-> <<"w", "g", "0">>,
      PrivateKey     |-> LongKey1,
      PublicKey      |-> LongKey2,
      PreSharedKey   |-> EmptyString,
      Endpoint       |-> UDPAddr(<<1, 2, 3, 4>>, 51820),
      Addresses      |-> << IPNet(<<1, 2, 3, 4>>, 24) >>,
      AllowedIPs     |-> << allIPv6 >>,
      FirewallMark   |-> 999,
      RulePriority   |-> 0,
      IPv6           |-> PtrBool(TRUE),
      Implementation |-> <<"u", "s", "e", "r", "s", "p", "a", "c", "e">> ]

SettingsFields == DOMAIN ValidSettings

\* the other values a field takes
SettingsAlternatives(f) ==
    CASE f = "InterfaceName"  -> << EmptyString, <<"$", "H", "1", "T">> >>
      [] f = "PrivateKey"     -> << EmptyString, BadKey >>
      [] f = "PublicKey"      -> << EmptyString, BadKey >>
      [] f = "PreSharedKey"   -> << BadKey, LongKey1 >>
      [] f = "Endpoint"       -> << NilUDPAddr, UDPAddr(NilIP, 0), UDPAddr(<<1, 2, 3, 4>>, 0),
                                    UDPAddr(NilIP, 51820) >>
      [] f = "Addresses"      -> << << >>,
                                    << NilIPNet >>,
                                    << IPNetNoMask(NilIP) >>,
                                    << IPNetNoMask(<<1, 2, 3, 4>>) >>,
                                    << IPNet(<<1, 1, 1, 1>>, 24), IPNet(<<2, 2, 2, 2>>, 32) >>,
                                    << IPNet(<<1, 1, 1, 1>>, 24), NilIPNet >>,
                                    << IPNet(<<1, 1, 1, 1>>, 24), IPNet(<<2, 2, 2, 2>>, 32),
                                       IPNet(<<10, 0, 0, 3>>, 8) >> >>
      [] f = "AllowedIPs"     -> << << >>,
                                    << NilIPNet >>,
                                    << IPNetNoMask(NilIP) >>,
                                    << allIPv4 >>,
                                    << allIPv4, allIPv6 >>,
                                    << allIPv4, NilIPNet >> >>
      [] f = "FirewallMark"   -> << 0 >>
      [] f = "RulePriority"   -> << 888 >>
      [] f = "IPv6"           -> << PtrBool(FALSE) >>
      [] f = "Implementation" -> << <<"x">>, EmptyString, <<"a", "u", "t", "o">> >>

PerturbedSettings(P, c) ==
    [f \in SettingsFields |->
        IF f \in P THEN SettingsAlternatives(f)[c[f]] ELSE ValidSettings[f]]

\* the settings handed to Check and ToLines
SomeSettings ==
    {ZeroSettings} \cup
    UNION { { PerturbedSettings(P, c) :
                c \in {d \in [P -> 1..7] : \A f \in P : d[f] <= Len(SettingsAlternatives(f))} } :
            P \in {Q \in SUBSET SettingsFields : Cardinality(Q) <= MaxPerturbed} }

InitCheck ==
    /\ NoOpenVPN
    /\ NoEnv
    /\ settings \in SomeSettings
    /\ lineSettings = ZeroToLinesSettings
    /\ checkErr = NoCheckError
    /\ lines = << >>
    /\ op = "init"

\* checkErr = settings.Check()
CallCheck ==
    /\ op = "init"
    /\ checkErr' = Check(settings)
    /\ op' = "Check"
    /\ UNCHANGED <<openvpnVars, settings, lineSettings, lines, envVars>>

NextCheck == CallCheck

SpecCheck == InitCheck /\ [][NextCheck]_vars

\* the line settings a caller gives: each of the three left unset or set
SomeLineSettings ==
    { [ Indent          |-> IF "Indent" \in G THEN PtrString("  ") ELSE NilString,
        FieldPrefix     |-> IF "FieldPrefix" \in G THEN PtrString("- ") ELSE NilString,
        LastFieldPrefix |-> IF "LastFieldPrefix" \in G THEN PtrString("* ") ELSE NilString ] :
      G \in SUBSET {"Indent", "FieldPrefix", "LastFieldPrefix"} }

InitLines ==
    /\ NoOpenVPN
    /\ NoEnv
    /\ settings \in {ws \in SomeSettings : ws.IPv6.set}
    /\ lineSettings \in SomeLineSettings
    /\ checkErr = NoCheckError
    /\ lines = << >>
    /\ op = "init"

\* lines = settings.ToLines(lineSettings)
CallToLines ==
    /\ op = "init"
    /\ lines' = ToLines(settings, lineSettings)
    /\ op' = "ToLines"
    /\ UNCHANGED <<openvpnVars, settings, lineSettings, checkErr, envVars>>

NextLines == CallToLines

SpecLines == InitLines /\ [][NextLines]_vars

(***************************************************************************)
(* readWireguard on the environments a user may give.                      *)
(***************************************************************************)
\* the values a user gives each variable (besides leaving it unset)
EnvValues(key) ==
    CASE key = "WIREGUARD_PRIVATE_KEY"    -> { EmptyString, LongKey1, <<" ", "k", "1", " ", "\n">> }
      [] key = "WIREGUARD_PRESHARED_KEY"  -> { EmptyString, LongKey2 }
      [] key = "VPN_INTERFACE"            -> { <<"w", "g", "0">> }
      [] key = "WIREGUARD_INTERFACE"      -> { <<"w", "g", "1">> }
      [] key = "WIREGUARD_IMPLEMENTATION" -> { <<"a", "u", "t", "o">> }
      [] key = "WIREGUARD_ALLOWED_IPS"    -> { <<"0", ".", "0", ".", "0", ".", "0", "/", "0", ",", " ", ":", ":", "/", "0">>,
                                               <<"0", ".", "0", ".", "0", ".", "0", "/", "0", ",", "b", "a", "d">> }
      [] key = "WIREGUARD_ADDRESSES"      -> { <<"1", "0", ".", "0", ".", "0", ".", "2", "/", "3", "2">>, <<"1", "0", ".", "0", ".", "0", ".", "2", "5", "6", "/", "3", "2">>,
                                               <<"\f", "1", "0", ".", "0", ".", "0", ".", "2", "/", "0", "0", "3", "2", ",", "<00A0>", "F", "D", "0", "0", ":", ":", "2", "/", "1", "2", "8">> }
      [] key = "WIREGUARD_ADDRESS"        -> { <<"1", "0", ".", "0", ".", "0", ".", "3", "/", "3", "3">> }

\* a variable is unset or has one of its values
EnvStates(key) == {Unset} \cup {[set |-> TRUE, val |-> v] : v \in EnvValues(key)}

InitEnv ==
    /\ NoOpenVPN
    /\ settings = << >>
    /\ lineSettings = << >>
    /\ checkErr = << >>
    /\ lines = << >>
    /\ environ \in
          [ WIREGUARD_PRIVATE_KEY    : EnvStates("WIREGUARD_PRIVATE_KEY"),
            WIREGUARD_PRESHARED_KEY  : EnvStates("WIREGUARD_PRESHARED_KEY"),
            VPN_INTERFACE            : EnvStates("VPN_INTERFACE"),
            WIREGUARD_INTERFACE      : EnvStates("WIREGUARD_INTERFACE"),
            WIREGUARD_IMPLEMENTATION : EnvStates("WIREGUARD_IMPLEMENTATION"),
            WIREGUARD_ALLOWED_IPS    : EnvStates("WIREGUARD_ALLOWED_IPS"),
            WIREGUARD_ADDRESSES      : EnvStates("WIREGUARD_ADDRESSES"),
            WIREGUARD_ADDRESS        : EnvStates("WIREGUARD_ADDRESS") ]
    /\ envBefore = environ
    /\ wireguard = << >>
    /\ readErr = NoReadError
    /\ op = "init"

\* wireguard, readErr = s.readWireguard()
ReadWireguard ==
    LET r == readWireguard(environ)
    IN  /\ op = "init"
        /\ wireguard' = r.wireguard
        /\ readErr' = r.err
        /\ environ' = r.environ
        /\ envBefore' = environ
        /\ op' = "readWireguard"
        /\ UNCHANGED <<openvpnVars, wireguardVars>>

NextEnv == ReadWireguard

SpecEnv == InitEnv /\ [][NextEnv]_vars

(***************************************************************************)
(* Properties.                                                             *)
(***************************************************************************)
\* what o and other hold now
Now == View(h, o)

Another == View(h, other)

EmptyValue(f) == Present(f, ZeroValue(f))

\* C1: mergeWith never overwrites a field of the receiver that is already
\* present, whatever the other operand holds: a set string, a non-nil
\* pointer (also one to the empty/zero value) or a non-nil slice is the
\* same after the call.
C1_MergeKeepsPresent ==
    op = "mergeWith" =>
        \A f \in Fields : IsSet(pre.o, f) => Now[f] = pre.o[f]

\* a merge whose receiver held an explicitly empty pointer field for which
\* the other operand had a non-empty value
C1_Witness ==
    /\ op = "mergeWith"
    /\ \E f \in PointerFields :
          /\ pre.o[f] = EmptyValue(f)
          /\ Another[f].set
          /\ Another[f] # EmptyValue(f)

\* C2: mergeWith fills every absent field of the receiver with the other
\* operand's value for it, each field on its own: with x absent and y
\* present in the receiver, x ends as the other's x and y stays the
\* receiver's y, and a field absent in both stays absent.
C2_MergeFillsAbsent ==
    op = "mergeWith" =>
        /\ \A f \in Fields : ~IsSet(pre.o, f) => Now[f] = Another[f]
        /\ \A x, y \in Fields :
              (~IsSet(pre.o, x) /\ IsSet(pre.o, y)) =>
                  (Now[x] = Another[x] /\ Now[y] = pre.o[y])
        /\ \A f \in Fields : (~IsSet(pre.o, f) /\ ~IsSet(Another, f)) => ~IsSet(Now, f)

\* fragment A with x absent and y present merged with fragment B with x
\* present and y present with another value
C2_Witness ==
    /\ op = "mergeWith"
    /\ \E x, y \in Fields :
          /\ ~IsSet(pre.o, x) /\ IsSet(Another, x)
          /\ IsSet(pre.o, y) /\ IsSet(Another, y) /\ Another[y] # pre.o[y]
          /\ Now[x] = Another[x]
    /\ \E f \in Fields : ~IsSet(pre.o, f) /\ ~IsSet(Another, f)

\* C3: overrideWith is right-biased: every field present in the other
\* operand holds the other's value after the call, whatever the receiver
\* held, and every field absent in the other keeps the receiver's value.
C3_OverrideRightBiased ==
    op = "overrideWith" =>
        \A f \in Fields :
            IF IsSet(Another, f) THEN Now[f] = Another[f] ELSE Now[f] = pre.o[f]

\* an override whose receiver held a non-empty pointer field that the other
\* operand sets to the empty value, next to a field the other leaves absent
C3_Witness ==
    /\ op = "overrideWith"
    /\ \E f \in PointerFields :
          /\ pre.o[f].set /\ pre.o[f] # EmptyValue(f)
          /\ Another[f] = EmptyValue(f)
    /\ \E f \in Fields : IsSet(pre.o, f) /\ ~IsSet(Another, f)

\* C4: setDefaults is idempotent: after it ran, running it again, for the
\* same or any other provider, leaves every field as it is.
C4_SetDefaultsIdempotent ==
    op = "WithDefaults" =>
        \A provider \in Providers :
            LET again == setDefaults(h, o, provider)
            IN  View(again.h, again.s) = Now

\* defaults were given to a value that had absent fields
C4_Witness ==
    /\ op = "WithDefaults"
    /\ \E f \in StringFields : ~IsSet(pre.o, f) /\ IsSet(Now, f)
    /\ \E f \in PointerFields : ~IsSet(pre.o, f) /\ IsSet(Now, f)

\* C5: setDefaults assigns only to absent fields: a field that is present
\* before the call, also a pointer field set to the empty/zero value, is
\* the same after it, for every provider.
C5_SetDefaultsKeepsPresent ==
    op = "WithDefaults" =>
        \A f \in Fields : IsSet(pre.o, f) => Now[f] = pre.o[f]

\* defaults for Mullvad given to a value whose password is set to ""
C5_Witness ==
    /\ op = "WithDefaults"
    /\ vpnProvider = Mullvad
    /\ pre.o.Password = EmptyValue("Password")

\* C6: the defaults setDefaults gives to absent fields: the password is "m"
\* for Mullvad and "" for every other provider, the PIA encryption preset
\* is "strong" for Private Internet Access and "" for every other provider,
\* and the others are the same for every provider: version 2.5, interface
\* tun0, process user root, verbosity 1, MSS fix 0 and the empty string for
\* user, configuration file, auth, certificate, key, encrypted key and key
\* passphrase.
C6_ExpectedDefault(f, provider) ==
    CASE f = "Version"      -> <<"2", ".", "5">>
      [] f = "Interface"    -> <<"t", "u", "n", "0">>
      [] f = "ProcessUser"  -> <<"r", "o", "o", "t">>
      [] f = "Password"     -> Present(f, IF provider = "mullvad" THEN <<"m">> ELSE << >>)
      [] f = "PIAEncPreset" ->
            Present(f, IF provider = "private internet access"
                       THEN <<"s", "t", "r", "o", "n", "g">> ELSE << >>)
      [] f = "Verbosity"    -> Present(f, 1)
      [] f = "MSSFix"       -> Present(f, 0)
      [] f \in SliceFields  -> Absent(f)
      [] OTHER              -> Present(f, << >>)

C6_ProviderDefaults ==
    /\ op = "WithDefaults" =>
          \A f \in Fields :
              ~IsSet(pre.o, f) => Now[f] = C6_ExpectedDefault(f, vpnProvider)
    /\ \A provider \in Providers :
          LET r == setDefaults(h, o, provider)
          IN  \A f \in Fields :
                  ~IsSet(Now, f) => View(r.h, r.s)[f] = C6_ExpectedDefault(f, provider)

\* defaults given to a value without password and preset, for Mullvad
C6_Witness ==
    /\ op = "WithDefaults"
    /\ vpnProvider = Mullvad
    /\ ~IsSet(pre.o, "Password")
    /\ ~IsSet(pre.o, "PIAEncPreset")
    /\ ~IsSet(pre.o, "Version")

\* C7: copy returns a value equal to the receiver field by field that
\* shares no storage with it: a later write through a pointer or into a
\* slice of the copy leaves the original as it was, and a write through the
\* original leaves the copy as it was.
C7_CopyIsIndependent ==
    /\ op = "copy" => View(h, copied) = Now
    /\ op = "mutateCopied" => Now = pre.o
    /\ op = "mutateOriginal" => View(h, copied) = pre.copied

\* an element of the Ciphers list of the copy was overwritten
C7_Witness ==
    /\ op = "mutateCopied"
    /\ View(h, copied).Ciphers # pre.copied.Ciphers
    /\ pre.copied.User.set

\* C8: defaults are never given to a value that is combined with another
\* source afterwards, they are given once, and validate runs only on a value
\* that has its defaults.
C8_DefaultsOnceAfterCombine ==
    /\ ~lateCombine
    /\ nDefaults <= 1
    /\ op = "validate" => nDefaults = 1

\* C8, its last clause: no call sequence gives defaults to a value that
\* mergeWith or overrideWith combines with another fragment afterwards.
C8_NoCombineAfterDefaults == ~lateCombine

\* C9: validate returns the error of the first failing check in the order
\* version, user, password, custom configuration file, client certificate,
\* client key, encrypted key, key passphrase, MSS fix, interface name,
\* verbosity, and nil exactly when no check fails.
C9_Outcomes ==
    << checkVersion(h, o, vpnProvider),
       checkUser(h, o, vpnProvider),
       checkPassword(h, o, vpnProvider),
       checkConfFile(h, o, vpnProvider),
       checkCert(h, o, vpnProvider),
       checkKey(h, o, vpnProvider),
       checkEncryptedKey(h, o, vpnProvider),
       checkKeyPassphrase(h, o, vpnProvider),
       checkMSSFix(h, o, vpnProvider),
       checkInterface(h, o, vpnProvider),
       checkVerbosity(h, o, vpnProvider) >>

C9_ValidateFailFast ==
    op = "validate" =>
        /\ err = NoError <=> \A i \in 1..11 : C9_Outcomes[i] = NoError
        /\ \A i \in 1..11 :
              (C9_Outcomes[i] # NoError /\ \A j \in 1..(i - 1) : C9_Outcomes[j] = NoError)
                  => err = C9_Outcomes[i]

\* the MSS fix and the interface name are both wrong, and the MSS fix is
\* what validate reports
C9_Witness ==
    /\ op = "validate"
    /\ Now.MSSFix.val > 10000
    /\ Now.Interface = << >>
    /\ err = [sentinel |-> "ErrOpenVPNMSSFixIsTooHigh", wrap |-> ""]

\* C10: with a valid version, an empty user is rejected as
\* ErrOpenVPNUserIsEmpty exactly when the provider is none of custom, AirVPN
\* and VPNSecure; once the user check passes, an empty password is rejected
\* as ErrOpenVPNPasswordIsEmpty exactly when the user is required and it is
\* not the case that the provider is IVPN and the user has the format of an
\* IVPN account ID; for the three exempt providers neither is an error.
C10_Exempt == {"custom", "airvpn", "vpnsecure"}

C10_IvpnAccountIDs == {Alternatives("User")[2], Alternatives("User")[3]}

C10_CredentialRequirement ==
    (op = "validate" /\ Now.Version \in {<<"2", ".", "5">>, <<"2", ".", "6">>}) =>
        /\ Now.User.val = << >> =>
              (err = Err("ErrOpenVPNUserIsEmpty") <=> vpnProvider \notin C10_Exempt)
        /\ (Now.User.val # << >> /\ Now.Password.val = << >>) =>
              (err = Err("ErrOpenVPNPasswordIsEmpty") <=>
                  /\ vpnProvider \notin C10_Exempt
                  /\ ~(vpnProvider = "ivpn" /\ Now.User.val \in C10_IvpnAccountIDs))
        /\ vpnProvider \in C10_Exempt =>
              err.sentinel \notin {"ErrOpenVPNUserIsEmpty", "ErrOpenVPNPasswordIsEmpty"}

\* IVPN with an account ID as user and an empty password passes
C10_Witness ==
    /\ op = "validate"
    /\ vpnProvider = Ivpn
    /\ Now.User.val \in C10_IvpnAccountIDs
    /\ Now.Password.val = << >>
    /\ err = NoError

\* the value that passes every check for every provider, as a caller sees it
ResolvedView ==
    LET a == NewOpenVPN(EmptyHeap, Resolved) IN View(a.h, a.s)

\* C11: with an empty certificate, validate fails for AirVPN, Cyberghost,
\* VPNSecure and VPN Unlimited whatever the other fields hold, and the error
\* is the missing value of the client certificate whenever the checks before
\* it (version, user, password, custom configuration file) pass, the fields
\* checked after it being valid or not; for every other provider the
\* certificate check accepts the empty certificate, and validate returns nil
\* when the other fields are valid.
C11_CertRequired == {"airvpn", "cyberghost", "vpnsecure", "vpn unlimited"}

C11_CertificateRequired ==
    (op = "validate" /\ Now.Cert.set /\ Now.Cert.val = << >>) =>
        /\ vpnProvider \in C11_CertRequired =>
              /\ err # NoError
              /\ (\A i \in 1..4 : C9_Outcomes[i] = NoError) =>
                    err = [sentinel |-> "ErrMissingValue", wrap |-> "client certificate"]
        /\ vpnProvider \notin C11_CertRequired =>
              /\ err.wrap # "client certificate"
              /\ (\A f \in Fields \ {"Cert"} : Now[f] = ResolvedView[f]) => err = NoError

\* VPN Unlimited with an empty certificate and every other field valid
C11_Witness ==
    /\ op = "validate"
    /\ vpnProvider = "vpn unlimited"
    /\ Now.Cert.set /\ Now.Cert.val = << >>
    /\ \A f \in Fields \ {"Cert"} : Now[f] = ResolvedView[f]
    /\ err = [sentinel |-> "ErrMissingValue", wrap |-> "client certificate"]

\* C12: when validate returns nil, a non-empty encrypted key comes with a
\* non-empty key passphrase, for every provider; and a non-empty encrypted
\* key with an empty passphrase is rejected as ErrOpenVPNKeyPassphraseIsEmpty
\* when the seven checks before it pass.
C12_PassphraseWithEncryptedKey ==
    (op = "validate" /\ Now.EncryptedKey.set /\ Now.KeyPassphrase.set) =>
        /\ (err = NoError /\ Now.EncryptedKey.val # << >>) => Now.KeyPassphrase.val # << >>
        /\ ( /\ Now.EncryptedKey.val # << >>
             /\ Now.KeyPassphrase.val = << >>
             /\ \A i \in 1..7 : C9_Outcomes[i] = NoError ) =>
                err = [sentinel |-> "ErrOpenVPNKeyPassphraseIsEmpty", wrap |-> ""]

\* a provider that does not need an encrypted key is given one without its
\* passphrase
C12_Witness ==
    /\ op = "validate"
    /\ vpnProvider = "mullvad"
    /\ Now.EncryptedKey.val # << >>
    /\ Now.KeyPassphrase.set /\ Now.KeyPassphrase.val = << >>
    /\ err = [sentinel |-> "ErrOpenVPNKeyPassphraseIsEmpty", wrap |-> ""]

\* C13: validate accepts a verbosity only if it lies between 0 and 5, the
\* range its error message cites.
C13_VerbosityWithinCitedRange ==
    (op = "validate" /\ Now.Verbosity.set /\ err = NoError) =>
        (0 <= Now.Verbosity.val /\ Now.Verbosity.val <= 5)

\* C16: the text String() returns depends on a secret field (user, password,
\* client certificate, client key, encrypted key, key passphrase) only
\* through whether it is set: two values that differ only in the non-empty
\* value of one secret field have the same text.
C16_SecretsRedacted ==
    ( /\ op = "String"
      /\ \E F \in {"User", "Password", "Cert", "Key", "EncryptedKey", "KeyPassphrase"} :
            /\ \A f \in Fields \ {F} : Now[f] = Another[f]
            /\ Now[F].set /\ Another[F].set
            /\ Now[F].val # << >> /\ Another[F].val # << >> ) =>
        text.o = text.other

\* C17: String() does not fail, has a line for every field, and the line of
\* an absent or empty field says that it is not set.
C17_Labels ==
    [ Version       |-> "OpenVPN version: ",
      User          |-> "User: ",
      Password      |-> "Password: ",
      ConfFile      |-> "Custom configuration file: ",
      Ciphers       |-> "Ciphers: ",
      Auth          |-> "Auth: ",
      Cert          |-> "Client crt: ",
      Key           |-> "Client key: ",
      EncryptedKey  |-> "Encrypted key: ",
      KeyPassphrase |-> "Encrypted key: ",
      PIAEncPreset  |-> "Private Internet Access encryption preset: ",
      MSSFix        |-> "MSS Fix: ",
      Interface     |-> "Network interface: ",
      ProcessUser   |-> "Run OpenVPN as: ",
      Verbosity     |-> "Verbosity level: ",
      Flags         |-> "Flags: " ]

C17_AbsenceVisible ==
    op = "String" =>
        /\ ~text.o.panic
        /\ \A f \in Fields :
              \E i \in 1..Len(text.o.lines) : text.o.lines[i].label = C17_Labels[f]

\* C17 on a value that has its defaults: String() has a line for every
\* field.
C17_LineForEveryField ==
    (op = "String" /\ ~text.o.panic) =>
        \A f \in Fields :
            \E i \in 1..Len(text.o.lines) : text.o.lines[i].label = C17_Labels[f]

\* C19: once setDefaults ran, whatever mergeWith and overrideWith calls came
\* before it, no pointer field of o is nil and Version, Interface and
\* ProcessUser are not empty; validate, for every provider, and String read
\* through no nil pointer.
C19_NoAbsentAfterDefaults ==
    nDefaults > 0 =>
        /\ \A f \in {"User", "Password", "ConfFile", "Auth", "Cert", "Key", "EncryptedKey",
                      "KeyPassphrase", "PIAEncPreset", "MSSFix", "Verbosity"} : Now[f].set
        /\ \A f \in {"Version", "Interface", "ProcessUser"} : Now[f] # << >>
        /\ \A provider \in Providers : validate(h, o, provider).sentinel # "panic"
        /\ ~String(h, o).panic

\* setDefaults ran on a combination that had a password and no user
C19_Witness ==
    /\ op = "WithDefaults"
    /\ nDefaults = 1
    /\ pre.o.Password.set /\ ~pre.o.User.set
    /\ Now.User.set /\ Now.Verbosity.set

\* C14: Check returns the error of the first failing check in the order
\* interface name, private key, public key, pre-shared key, endpoint,
\* allowed IPs, addresses, firewall mark, implementation, and nil exactly
\* when none fails; within a list it is the error of the first failing
\* entry; the zero Settings fail with ErrInterfaceNameInvalid and the empty
\* name in the message, and an endpoint with an IP and port 0 behind valid
\* name and keys fails with ErrEndpointPortMissing.
C14_Outcomes ==
    << checkInterfaceName(settings),
       checkPrivateKey(settings),
       checkPublicKey(settings),
       checkPreSharedKey(settings),
       checkEndpoint(settings),
       checkAllowedIPs(settings),
       checkAddresses(settings),
       checkFirewallMark(settings),
       checkImplementation(settings) >>

C14_CheckFailFast ==
    op = "Check" =>
        /\ checkErr.sentinel = "nil" <=> \A i \in 1..9 : C14_Outcomes[i].sentinel = "nil"
        /\ \A i \in 1..9 :
              ( /\ C14_Outcomes[i].sentinel # "nil"
                /\ \A j \in 1..(i - 1) : C14_Outcomes[j].sentinel = "nil" )
                  => checkErr = C14_Outcomes[i]
        /\ settings = ZeroSettings =>
              checkErr = [sentinel |-> "ErrInterfaceNameInvalid", detail |-> << >>]
        /\ ( /\ \A i \in 1..4 : C14_Outcomes[i].sentinel = "nil"
             /\ ~settings.Endpoint.nil
             /\ settings.Endpoint.ip # << >>
             /\ settings.Endpoint.port = 0 ) =>
                checkErr.sentinel = "ErrEndpointPortMissing"
        /\ settings.PrivateKey = << >> =>
              checkErr.sentinel \in {"ErrInterfaceNameInvalid", "ErrPrivateKeyMissing"}

\* the addresses are empty and the firewall mark is zero, and the addresses
\* are what Check reports
C14_Witness ==
    /\ op = "Check"
    /\ settings.Addresses = << >>
    /\ settings.FirewallMark = 0
    /\ checkErr = [sentinel |-> "ErrAddressMissing", detail |-> << >>]

\* C15: when the checks before the allowed IPs pass and every allowed IP is
\* a network with an IP, a list with an IPv6 network is rejected with
\* ErrAllowedIPv6NotSupported and the network in the message when IPv6 is
\* false, and is not rejected for it when IPv6 is true.
C15_HasIPv6 ==
    /\ \A i \in 1..5 : C14_Outcomes[i].sentinel = "nil"
    /\ settings.AllowedIPs # << >>
    /\ \A i \in 1..Len(settings.AllowedIPs) :
          ~settings.AllowedIPs[i].nil /\ settings.AllowedIPs[i].ip # << >>
    /\ \E i \in 1..Len(settings.AllowedIPs) : Len(settings.AllowedIPs[i].ip) = 8

C15_IPv6NeedsFlag ==
    (op = "Check" /\ C15_HasIPv6 /\ settings.IPv6.set) =>
        IF settings.IPv6.val
        THEN /\ checkErr.sentinel # "ErrAllowedIPv6NotSupported"
             /\ checkAllowedIPs(settings).sentinel = "nil"
        ELSE checkErr = [sentinel |-> "ErrAllowedIPv6NotSupported",
                         detail |-> <<"f", "o", "r", " ", "a", "l", "l", "o", "w", "e", "d", " ", "I", "P", " ", ":", ":", "/", "0">>]

\* an IPv6 network after an IPv4 one, with IPv6 false
C15_Witness ==
    /\ op = "Check"
    /\ Len(settings.AllowedIPs) = 2
    /\ C15_HasIPv6
    /\ settings.IPv6 = [set |-> TRUE, val |-> FALSE]
    /\ checkErr.sentinel = "ErrAllowedIPv6NotSupported"

\* C18: the lines of ToLines are the top-level lines followed by one line
\* per address; every top-level line but the last carries the field prefix
\* and the last the last-field prefix; every address line is behind one
\* indent and carries the field prefix, the last one the last-field prefix;
\* each of indent and the two prefixes is the one given, or its default when
\* it is not given.
C18_Indent == IF lineSettings.Indent.set THEN lineSettings.Indent.val ELSE "    "

C18_FieldPrefix ==
    IF lineSettings.FieldPrefix.set THEN lineSettings.FieldPrefix.val
    ELSE "<251C><2500><2500> "

C18_LastFieldPrefix ==
    IF lineSettings.LastFieldPrefix.set THEN lineSettings.LastFieldPrefix.val
    ELSE "<2514><2500><2500> "

C18_BranchLeafRule ==
    op = "ToLines" =>
        LET n == Len(settings.Addresses)
            top == Len(lines) - n
        IN  /\ top >= 1
            /\ \A i \in 1..Len(lines) :
                  /\ lines[i].indent = (IF i <= top THEN "" ELSE C18_Indent)
                  /\ lines[i].prefix = (IF i = top \/ i = Len(lines) THEN C18_LastFieldPrefix
                                         ELSE C18_FieldPrefix)

\* two addresses under custom prefixes and the default indent
C18_Witness ==
    /\ op = "ToLines"
    /\ Len(settings.Addresses) = 2
    /\ ~lineSettings.Indent.set
    /\ lineSettings.FieldPrefix.set /\ lineSettings.LastFieldPrefix.set
    /\ lines[Len(lines)] =
          [indent |-> "    ", prefix |-> "* ", label |-> "",
           value |-> <<"2", ".", "2", ".", "2", ".", "2", "/", "3", "2">>]

\* C20: when readWireguard has returned, with a fragment or with the error
\* of the allowed IPs or of the addresses, WIREGUARD_PRIVATE_KEY and
\* WIREGUARD_PRESHARED_KEY are not set, no other variable has changed, and
\* the fragment carries the two values the variables had when it was
\* called (nil for an unset or empty one).
C20_Carried(key) ==
    IF ~envBefore[key].set \/ TrimSpace(envBefore[key].val) = << >>
    THEN [set |-> FALSE, val |-> << >>]
    ELSE [set |-> TRUE, val |-> TrimSpace(envBefore[key].val)]

C20_SecretsUnset ==
    op = "readWireguard" =>
        /\ ~environ["WIREGUARD_PRIVATE_KEY"].set
        /\ ~environ["WIREGUARD_PRESHARED_KEY"].set
        /\ \A k \in EnvKeys \ {"WIREGUARD_PRIVATE_KEY", "WIREGUARD_PRESHARED_KEY"} :
              environ[k] = envBefore[k]
        /\ wireguard.PrivateKey = C20_Carried("WIREGUARD_PRIVATE_KEY")
        /\ wireguard.PreSharedKey = C20_Carried("WIREGUARD_PRESHARED_KEY")

\* both secrets were set and the allowed IPs did not parse
C20_Witness ==
    /\ op = "readWireguard"
    /\ envBefore["WIREGUARD_PRIVATE_KEY"].set /\ envBefore["WIREGUARD_PRIVATE_KEY"].val # << >>
    /\ envBefore["WIREGUARD_PRESHARED_KEY"].set
    /\ readErr = [key |-> "WIREGUARD_ALLOWED_IPS", sentinel |-> "net.ParseError"]
    /\ ~environ["WIREGUARD_PRIVATE_KEY"].set
    /\ wireguard.PrivateKey.set

====
